---- MODULE Spec2Model ----
(***************************************************************************)
(* Model of the screen-time risk scoring backend (src/backend/app.py):     *)
(* ScreenTimePredictor.load_models, preprocess_input,                      *)
(* calculate_risk_scores and predict, and                                  *)
(* RecommendationEngine.generate_recommendations of src/backend/app.py and *)
(* of src/category_recommendations.py.                                     *)
(*                                                                         *)
(* Conventions                                                             *)
(*  - The source's en dash (U+2013) is written "--" in every string of     *)
(*    this module and the ASCII hyphen is written "-", so "3--4 hours"    *)
(*    and "3-4 hours" are the two distinct labels of the source.           *)
(*  - A Python value is a record [k, n, s]: k = "int" with the integer in  *)
(*    n, k = "str" with the text in s, k = "err" for an expression whose   *)
(*    evaluation raised TypeError.                                         *)
(*  - A Python dict is a function whose DOMAIN is the set of keys present. *)
(*  - The float scores of calculate_risk_scores are kept in hundredths     *)
(*    (fixed point): 0.5 * w is 50 * w, total_risk < 50 is total < 5000.   *)
(*    Every weight of the source is a multiple of 0.1 and every score a    *)
(*    multiple of 0.05, so the hundredths are exact.                       *)
(***************************************************************************)
EXTENDS Integers, Sequences, FiniteSets, TLC

VARIABLES
    model,            \* predictor.model: "None" or "loaded"
    scaler,           \* predictor.scaler: "None" or "loaded"
    label_encoders,   \* predictor.label_encoders: [loaded, classes]
    feature_names,    \* predictor.feature_names: "None" or "loaded"
    load_pc,          \* "start" before load_models, then "loaded" or "failed"
    user_data,        \* the survey response of the last call
    processed_data,   \* the normalized feature mapping of the last call
    user_context,     \* the user context of the last calculate_risk_scores call
    op,               \* the operation that produced ret
    invocation,       \* how the classifier invocation of the last predict ended
    ret,              \* what the last call returned, or that it raised
    prediction_in,    \* the prediction passed to the last generate_recommendations call
    recommendations,  \* what the last generate_recommendations call returned
    earlier,          \* one earlier generate_recommendations call: its inputs and result
    calls,            \* the requests in flight: each one's locals and position
    db,               \* the database file: the rows of users and of assessments
    saves             \* the user_id of every save_assessment call that succeeded

vars == <<model, scaler, label_encoders, feature_names, load_pc, user_data,
          processed_data, user_context, op, invocation, ret,
          prediction_in, recommendations, earlier, calls, db, saves>>

engineVars == <<prediction_in, recommendations, earlier, calls>>

dbVars == <<db, saves>>

\* the tables init_database creates: no row in either
EmptyDb == [users |-> {}, assessments |-> {}]

\* the database as init_database leaves it, and no save_assessment call made
DbIdle ==
    /\ db = EmptyDb
    /\ saves = <<>>

----------------------------------------------------------------------------
(* Python values and dicts *)

V_int(i) == [k |-> "int", n |-> i, s |-> ""]
V_str(t) == [k |-> "str", n |-> 0, s |-> t]
V_err == [k |-> "err", n |-> 0, s |-> "TypeError"]

EmptyDict == [x \in {} |-> V_int(0)]

\* dict.get(key, default)
Get(d, key, default) == IF key \in DOMAIN d THEN d[key] ELSE default

\* d[key] = value
Put(d, key, value) ==
    [x \in DOMAIN d \cup {key} |-> IF x = key THEN value ELSE d[x]]

\* del d[key]
Del(d, key) == [x \in DOMAIN d \ {key} |-> d[x]]

\* a * c for an int literal c: int * int multiplies, str * int repeats
PyMul(a, c) ==
    IF a.k = "int" THEN V_int(a.n * c)
    ELSE IF a.k = "str" THEN
        (IF c = 2 THEN V_str(a.s \o a.s) ELSE IF c = 1 THEN a ELSE V_err)
    ELSE V_err

\* a + b: int + int adds, str + str concatenates, a mix raises TypeError
PyAdd(a, b) ==
    IF a.k = "int" /\ b.k = "int" THEN V_int(a.n + b.n)
    ELSE IF a.k = "str" /\ b.k = "str" THEN V_str(a.s \o b.s)
    ELSE V_err

\* a - b: defined on ints only
PySub(a, b) ==
    IF a.k = "int" /\ b.k = "int" THEN V_int(a.n - b.n) ELSE V_err

Max(a, b) == IF a >= b THEN a ELSE b
Min(a, b) == IF a <= b THEN a ELSE b

----------------------------------------------------------------------------
(* preprocess_input *)

FrontendKeys ==
    {"totalScreenTime", "socialMedia", "entertainment", "workTime",
     "sleepDuration", "screenBeforeSleep", "exercise", "addicted",
     "sleepQuality", "stress", "anxious", "eyeStrain"}

field_mapping ==
    [x \in FrontendKeys |->
        CASE x = "totalScreenTime" -> "Average total screen time per day"
          [] x = "socialMedia" -> "Social Media (hours)"
          [] x = "entertainment" -> "Entertainment (hours)"
          [] x = "workTime" -> "Work/Education (hours)"
          [] x = "sleepDuration" -> "Average sleep duration (hours)"
          [] x = "screenBeforeSleep" -> "Use screen before sleep"
          [] x = "exercise" -> "Exercise frequency"
          [] x = "addicted" -> "Feel addicted to devices"
          [] x = "sleepQuality" -> "Sleep quality (1--5)"
          [] x = "stress" -> "Stress due to screen usage"
          [] x = "anxious" -> "Anxious without device"
          [] x = "eyeStrain" -> "Eye strain or headache"]

HoursVocabulary ==
    [x \in {"Less than 1 hour", "1--2 hours", "1-2 hours", "3--4 hours",
            "3-4 hours", "5--6 hours", "5-6 hours", "More than 6 hours"} |->
        CASE x = "Less than 1 hour" -> 0
          [] x \in {"1--2 hours", "1-2 hours"} -> 1
          [] x \in {"3--4 hours", "3-4 hours"} -> 2
          [] x \in {"5--6 hours", "5-6 hours"} -> 3
          [] x = "More than 6 hours" -> 4]

SleepVocabulary ==
    [x \in {"Less than 5", "5--6", "5-6", "6--7", "6-7", "7--8", "7-8",
            "More than 8"} |->
        CASE x = "Less than 5" -> 0
          [] x \in {"5--6", "5-6"} -> 1
          [] x \in {"6--7", "6-7"} -> 2
          [] x \in {"7--8", "7-8"} -> 3
          [] x = "More than 8" -> 4]

BeforeSleepVocabulary ==
    [x \in {"Never", "Rarely", "Sometimes", "Often", "Always"} |->
        CASE x = "Never" -> 0
          [] x = "Rarely" -> 1
          [] x = "Sometimes" -> 2
          [] x = "Often" -> 3
          [] x = "Always" -> 4]

ExerciseVocabulary ==
    [x \in {"Never", "1--2 days per week", "1-2 days per week",
            "3--4 days per week", "3-4 days per week", "Daily"} |->
        CASE x = "Never" -> 0
          [] x \in {"1--2 days per week", "1-2 days per week"} -> 1
          [] x \in {"3--4 days per week", "3-4 days per week"} -> 2
          [] x = "Daily" -> 3]

AddictedVocabulary ==
    [x \in {"No", "Not sure", "Maybe", "Yes"} |->
        CASE x = "No" -> 0
          [] x = "Not sure" -> 1
          [] x = "Maybe" -> 2
          [] x = "Yes" -> 3]

OrdinalKeys ==
    {"Average total screen time per day", "Social Media (hours)",
     "Entertainment (hours)", "Work/Education (hours)",
     "Average sleep duration (hours)", "Use screen before sleep",
     "Exercise frequency", "Feel addicted to devices"}

ordinal_mappings ==
    [x \in OrdinalKeys |->
        CASE x \in {"Average total screen time per day", "Social Media (hours)",
                    "Entertainment (hours)", "Work/Education (hours)"} ->
                HoursVocabulary
          [] x = "Average sleep duration (hours)" -> SleepVocabulary
          [] x = "Use screen before sleep" -> BeforeSleepVocabulary
          [] x = "Exercise frequency" -> ExerciseVocabulary
          [] x = "Feel addicted to devices" -> AddictedVocabulary]

HyphenLabels ==
    {"1-2 hours", "3-4 hours", "5-6 hours", "5-6", "6-7", "7-8",
     "1-2 days per week", "3-4 days per week"}

\* the lookup in tables that lack the hyphen forms
OrdinalOfEnDashOnly(key, value) ==
    IF /\ value.k = "str"
       /\ value.s \in DOMAIN ordinal_mappings[key]
       /\ value.s \notin HyphenLabels
    THEN ordinal_mappings[key][value.s]
    ELSE 0

\* ordinal_mappings[key].get(value, 0)
OrdinalOf(key, value) ==
    IF value.k = "str" /\ value.s \in DOMAIN ordinal_mappings[key]
    THEN ordinal_mappings[key][value.s]
    ELSE 0

\* mapped_data: the mapped fields first, then every unmapped field copied
\* under its own key (a later assignment to the same key overwrites)
MappedData(ud) ==
    LET unmapped == DOMAIN ud \ FrontendKeys
        mapped == {field_mapping[x] : x \in DOMAIN ud \cap FrontendKeys}
    IN [b \in mapped \cup unmapped |->
            IF b \in unmapped THEN ud[b]
            ELSE ud[CHOOSE x \in DOMAIN ud \cap FrontendKeys : field_mapping[x] = b]]

\* label_encoders[key].transform([value])[0], or 0 when transform raises:
\* a fitted encoder numbers the classes it was fitted on, an unseen label
\* raises ValueError
Transform(encoders, key, value) ==
    LET cls == encoders.classes[key]
        hit == {i \in 1..Len(cls) : cls[i] = value.s}
    IN IF hit = {} THEN 0 ELSE (CHOOSE i \in hit : TRUE) - 1

preprocess_input(encoders, ud) ==
    LET mapped_data == MappedData(ud)
    IN [b \in DOMAIN mapped_data |->
            IF b \in OrdinalKeys THEN V_int(OrdinalOf(b, mapped_data[b]))
            ELSE IF mapped_data[b].k = "str" /\ encoders.loaded
                    /\ b \in DOMAIN encoders.classes
                 THEN V_int(Transform(encoders, b, mapped_data[b]))
            ELSE mapped_data[b]]

----------------------------------------------------------------------------
(* calculate_risk_scores *)

\* user_context is None, or a dict that may hold occupation and field
NoContext == [is_none |-> TRUE, d |-> EmptyDict]
Context(d) == [is_none |-> FALSE, d |-> d]

\* `if user_context:` a dict is truthy when it is not empty
Truthy(ctx) == ~ctx.is_none /\ DOMAIN ctx.d # {}

screen_time_score_of(pd) ==
    PyAdd(PyAdd(PyAdd(
        PyMul(Get(pd, "Average total screen time per day", V_int(0)), 5),
        PyMul(Get(pd, "Social Media (hours)", V_int(0)), 3)),
        PyMul(Get(pd, "Entertainment (hours)", V_int(0)), 2)),
        PyMul(Get(pd, "Work/Education (hours)", V_int(0)), 1))

\* the quality term with the scale read upside down: a better sleep quality
\* adds risk
sleep_risk_quality_as_risk(pd) ==
    PyAdd(PyAdd(
        PyMul(PySub(V_int(4), Get(pd, "Average sleep duration (hours)", V_int(0))), 3),
        PyMul(Get(pd, "Sleep quality (1--5)", V_int(3)), 2)),
        PyMul(Get(pd, "Use screen before sleep", V_int(0)), 2))

sleep_risk_of(pd) ==
    PyAdd(PyAdd(
        PyMul(PySub(V_int(4), Get(pd, "Average sleep duration (hours)", V_int(0))), 3),
        PyMul(PySub(V_int(5), Get(pd, "Sleep quality (1--5)", V_int(3))), 2)),
        PyMul(Get(pd, "Use screen before sleep", V_int(0)), 2))

\* eye strain weighted like the other behavioural answers
behavioral_risk_eye_doubled(pd) ==
    PyAdd(PyAdd(PyAdd(
        PyMul(Get(pd, "Stress due to screen usage", V_int(0)), 2),
        PyMul(Get(pd, "Anxious without device", V_int(0)), 2)),
        PyMul(Get(pd, "Eye strain or headache", V_int(0)), 2)),
        PyMul(Get(pd, "Feel addicted to devices", V_int(0)), 2))

behavioral_risk_of(pd) ==
    PyAdd(PyAdd(PyAdd(
        PyMul(Get(pd, "Stress due to screen usage", V_int(0)), 2),
        PyMul(Get(pd, "Anxious without device", V_int(0)), 2)),
        Get(pd, "Eye strain or headache", V_int(0))),
        PyMul(Get(pd, "Feel addicted to devices", V_int(0)), 2))

\* the benefit with its sign flipped: exercise adds risk
exercise_benefit_flipped(pd) ==
    PyMul(PyAdd(V_int(3), Get(pd, "Exercise frequency", V_int(0))), 2)

exercise_benefit_of(pd) ==
    PyMul(PySub(V_int(3), Get(pd, "Exercise frequency", V_int(0))), 2)

\* the recreational penalties of field = IT applied only from the work
\* threshold on, like every other rule
contextual_adjustment_work_gated(pd, ctx) ==
    IF ~Truthy(ctx) THEN 0
    ELSE
        LET occupation == Get(ctx.d, "occupation", V_str(""))
            field == Get(ctx.d, "field", V_str(""))
            work_time == Get(pd, "Work/Education (hours)", V_int(0)).n
            social_media_hours == Get(pd, "Social Media (hours)", V_int(0)).n
            entertainment_hours == Get(pd, "Entertainment (hours)", V_int(0)).n
        IN IF work_time < 4 THEN 0
           ELSE IF field = V_str("IT") THEN
                (0 - work_time * 50)
                + (IF social_media_hours >= 2 THEN social_media_hours * 150 ELSE 0)
                + (IF entertainment_hours >= 2 THEN entertainment_hours * 120 ELSE 0)
           ELSE IF occupation = V_str("Student") THEN work_time * 30
           ELSE IF field = V_str("Non-IT") /\ occupation = V_str("Employed")
           THEN work_time * 80
           ELSE 0

\* contextual_adjustment, in hundredths
contextual_adjustment_of(pd, ctx) ==
    IF ~Truthy(ctx) THEN 0
    ELSE
        LET occupation == Get(ctx.d, "occupation", V_str(""))
            field == Get(ctx.d, "field", V_str(""))
            work_time == Get(pd, "Work/Education (hours)", V_int(0)).n
            social_media_hours == Get(pd, "Social Media (hours)", V_int(0)).n
            entertainment_hours == Get(pd, "Entertainment (hours)", V_int(0)).n
        IN IF field = V_str("IT") THEN
                (IF work_time >= 4 THEN 0 - work_time * 50 ELSE 0)
                + (IF social_media_hours >= 2 THEN social_media_hours * 150 ELSE 0)
                + (IF entertainment_hours >= 2 THEN entertainment_hours * 120 ELSE 0)
           ELSE IF occupation = V_str("Student") THEN
                (IF work_time >= 4 THEN work_time * 30 ELSE 0)
           ELSE IF field = V_str("Non-IT") /\ occupation = V_str("Employed") THEN
                (IF work_time >= 4 THEN work_time * 80 ELSE 0)
           ELSE 0

\* total_risk = screen_time_score + sleep_risk + behavioral_risk
\*              + exercise_benefit + contextual_adjustment, in hundredths
total_risk_sum(screen, sleep, behavioral, exercise, contextual) ==
    100 * (screen + sleep + behavioral + exercise) + contextual

\* the sum before it is floored, for a mapping whose scores are all ints
total_risk_of(pd, ctx) ==
    total_risk_sum(screen_time_score_of(pd).n, sleep_risk_of(pd).n,
                   behavioral_risk_of(pd).n, exercise_benefit_of(pd).n,
                   contextual_adjustment_of(pd, ctx))

\* the floor left out: the sum is returned as it is
total_risk_unfloored(total) == total

\* 'total_risk': max(0, total_risk)
total_risk_floor(total) == Max(0, total)

\* the upper clamp left out
screen_index_unclamped(total) == Max(0, (total * 15) \div 10)

\* 'screen_index': min(100, max(0, total_risk * 1.5))
screen_index_of(total) == Min(10000, Max(0, (total * 15) \div 10))

\* 'sleep_health': max(0, 100 - sleep_risk * 3)
sleep_health_of(sleep_risk) == Max(0, 10000 - sleep_risk * 300)

\* 'wellbeing_score': max(0, 100 - behavioral_risk * 2.5)
wellbeing_score_of(behavioral_risk) == Max(0, 10000 - behavioral_risk * 250)

Raised(what) ==
    [raised |-> TRUE, error |-> what, total_risk |-> 0, screen_time_score |-> 0,
     sleep_risk |-> 0, behavioral_risk |-> 0, work_time_score |-> 0,
     contextual_adjustment |-> 0, screen_index |-> 0, sleep_health |-> 0,
     wellbeing_score |-> 0]

\* The call raises TypeError when one of its sums does: a str where a
\* number is needed. total_risk, contextual_adjustment and the three
\* indices are in hundredths, the other scores are Python ints.
calculate_risk_scores(pd, ctx) ==
    LET screen_time_score == screen_time_score_of(pd)
        sleep_risk == sleep_risk_of(pd)
        behavioral_risk == behavioral_risk_of(pd)
        exercise_benefit == exercise_benefit_of(pd)
    IN IF \/ screen_time_score.k # "int"
          \/ sleep_risk.k # "int"
          \/ behavioral_risk.k # "int"
          \/ exercise_benefit.k # "int"
       THEN Raised("TypeError")
       ELSE
        LET contextual_adjustment == contextual_adjustment_of(pd, ctx)
            total_risk ==
                total_risk_sum(screen_time_score.n, sleep_risk.n,
                               behavioral_risk.n, exercise_benefit.n,
                               contextual_adjustment)
        IN [raised |-> FALSE, error |-> "",
            total_risk |-> total_risk_floor(total_risk),
            screen_time_score |-> screen_time_score.n,
            sleep_risk |-> sleep_risk.n,
            behavioral_risk |-> behavioral_risk.n,
            work_time_score |-> Get(pd, "Work/Education (hours)", V_int(0)).n,
            contextual_adjustment |-> contextual_adjustment,
            screen_index |-> screen_index_of(total_risk),
            sleep_health |-> sleep_health_of(sleep_risk.n),
            wellbeing_score |-> wellbeing_score_of(behavioral_risk.n)]

----------------------------------------------------------------------------
(* RecommendationEngine.generate_recommendations (src/backend/app.py)      *)
(*                                                                         *)
(* An advisory is a string: the text of the source's string literal in    *)
(* ASCII (emoji and other symbols dropped, the en dash written "--"). An   *)
(* f-string is its template with "{}" where a value is interpolated, then  *)
(* " % " and the interpolated values as str() prints them. A               *)
(* recommendation dict is a function from category to the sequence of its  *)
(* advisories; index 0 of a Python list is index 1 of the sequence.        *)

V_none == [k |-> "none", n |-> 0, s |-> ""]

\* an expression whose evaluation raised the named exception
V_raise(what) == [k |-> "err", n |-> 0, s |-> what]

\* str(x) for an int or a str
Str(x) == IF x.k = "int" THEN ToString(x.n) ELSE x.s

\* a plain string literal
A(text) == text

\* an f-string with one or two interpolated values
F(text, args) ==
    IF Len(args) = 1
    THEN text \o " % " \o Str(args[1])
    ELSE text \o " % " \o Str(args[1]) \o ", " \o Str(args[2])

DecimalDigits == <<"0", "1", "2", "3", "4", "5", "6", "7", "8", "9">>

\* int(x): an int is itself, a string of one decimal digit is its value, any
\* other string raises ValueError and None raises TypeError
PyInt(x) ==
    IF x.k = "int" THEN x
    ELSE IF x.k = "str" THEN
        (IF \E i \in 1..Len(DecimalDigits) : DecimalDigits[i] = x.s
         THEN V_int((CHOOSE i \in 1..Len(DecimalDigits) : DecimalDigits[i] = x.s) - 1)
         ELSE V_raise("ValueError"))
    ELSE V_raise("TypeError")

\* x.upper(), for the two occupations it is applied to
Upper(x) ==
    IF x = V_str("Unemployed") THEN V_str("UNEMPLOYED")
    ELSE IF x = V_str("Retired") THEN V_str("RETIRED")
    ELSE x

\* the index ignored: the item goes to the front of the list
InsertAtFront(list, i, x) == <<x>> \o list

\* list.insert(i, x) for i >= 0: past the end it appends
InsertAt(list, i, x) ==
    LET j == Min(i, Len(list))
    IN SubSeq(list, 1, j) \o <<x>> \o SubSeq(list, j + 1, Len(list))

\* recommendations[category].extend(items)
ListExtend(r, category, items) == [r EXCEPT ![category] = @ \o items]

\* recommendations[category].append(item)
ListAppend(r, category, item) == [r EXCEPT ![category] = Append(@, item)]

\* the insert taken for an append: the item goes to the end of the list
ListInsertAppending(r, category, i, item) == ListAppend(r, category, item)

\* recommendations[category].insert(i, item)
ListInsert(r, category, i, item) == [r EXCEPT ![category] = InsertAt(@, i, item)]

Categories ==
    {"work_screen_recommendations", "social_media_recommendations",
     "entertainment_recommendations", "general_wellness_tips",
     "app_lock_suggestions", "meditation_exercises", "parental_controls"}

\* the accumulator kept from call to call: a call starts from the lists the
\* previous call built
shared_recommendations(previous) ==
    [c \in Categories |-> IF c \in DOMAIN previous THEN previous[c] ELSE <<>>]

\* recommendations = {...}: the dict literal is evaluated in every call, so
\* a call starts from empty lists whatever an earlier call built
new_recommendations(previous) == [c \in Categories |-> <<>>]

\* the locals read from user_data (lines 279-288 and 498-502)
locals_of(ud) ==
    [total_screen |-> Get(ud, "totalScreenTime", V_str("")),
     stress_level |-> PyInt(Get(ud, "stress", V_int(3))),
     sleep_before_screen |-> Get(ud, "screenBeforeSleep", V_str("")),
     age_group |-> Get(ud, "ageGroup", V_str("")),
     addicted |-> Get(ud, "addicted", V_str("")),
     work_time |-> Get(ud, "workTime", V_str("")),
     occupation |-> Get(ud, "occupation", V_str("")),
     field |-> Get(ud, "field", V_str("")),
     social_media |-> Get(ud, "socialMedia", V_str("")),
     entertainment |-> Get(ud, "entertainment", V_str("")),
     stress |-> PyInt(Get(ud, "stress", V_int(3))),
     anxious |-> PyInt(Get(ud, "anxious", V_int(3))),
     eye_strain |-> PyInt(Get(ud, "eyeStrain", V_int(3))),
     exercise_freq |-> Get(ud, "exercise", V_str("")),
     sleep_quality |-> PyInt(Get(ud, "sleepQuality", V_int(3)))]

\* the eye_strain_multiplier is in tenths
industry_risk_factors ==
    [x \in {"IT", "Non-IT"} |->
        IF x = "IT"
        THEN [unavoidable_screen_time |-> TRUE, eye_strain_multiplier |-> 15]
        ELSE [unavoidable_screen_time |-> FALSE, eye_strain_multiplier |-> 10]]

\* industry_risk_factors.get(field, industry_risk_factors['Non-IT'])
current_industry(field) ==
    IF field.k = "str" /\ field.s \in DOMAIN industry_risk_factors
    THEN industry_risk_factors[field.s]
    ELSE industry_risk_factors["Non-IT"]

\* app.py: the wellness ladder over totalScreenTime, then the stress and sleep tips (lines 290-338)
wellness_tips(r0, v) ==
    LET r1 ==
          IF v.total_screen = V_str("More than 6 hours")
          THEN ListExtend(r0, "general_wellness_tips",
                  <<A("CRITICAL: Your 6+ hours of daily screen time is excessive and harmful"),
                    A("URGENT: Take a 10-minute break EVERY 30 minutes"),
                    A("MANDATORY: Practice 20-20-20 rule - Every 20 min, look 20 feet away for 20 sec"),
                    A("Create strict device-free zones (bedroom, bathroom, dining area)"),
                    A("Set your phone to grayscale mode after 6 PM"),
                    A("Target: Reduce screen time by 2 hours this week")>>)
          ELSE IF v.total_screen = V_str("5--6 hours")
              THEN ListExtend(r0, "general_wellness_tips",
                      <<A("Your 5-6 hours of daily screen time is above healthy limits"),
                        A("Take 5-minute breaks every hour"),
                        A("Practice 20-20-20 rule for eye health"),
                        A("Establish device-free zones in your home"),
                        A("Implement 'Digital Sunset' - no screens 1 hour before bed"),
                        A("Target: Reduce to under 4 hours daily")>>)
              ELSE IF v.total_screen = V_str("3--4 hours")
                  THEN ListExtend(r0, "general_wellness_tips",
                          <<A("Your screen time is moderate but can improve"),
                            A("Continue taking hourly breaks"),
                            A("Use blue light filters in the evening"),
                            A("Track your usage to maintain awareness"),
                            A("Try to keep it under 4 hours")>>)
                  ELSE IF v.total_screen = V_str("1--2 hours")
                      THEN ListExtend(r0, "general_wellness_tips",
                              <<A("Great! Your screen time is within healthy limits"),
                                A("Keep maintaining these excellent habits"),
                                A("Continue tracking to stay accountable"),
                                A("Consider sharing your strategies with others")>>)
                      ELSE ListExtend(r0, "general_wellness_tips",
                              <<A("Outstanding! Your screen time is exceptionally healthy"),
                                A("You're a role model for digital wellness"),
                                A("Consider mentoring others on healthy tech habits"),
                                A("Maintain this excellent balance")>>)
        r2 ==
          IF v.stress_level.n >= 4
          THEN ListInsert(r1, "general_wellness_tips", 1,
                  F("High stress level ({}/5) detected - Screen breaks are crucial for your mental health", <<v.stress_level>>))
          ELSE r1
    IN IF v.sleep_before_screen \in {V_str("Always"), V_str("Often")}
       THEN ListAppend(r2, "general_wellness_tips",
               A("WARNING: Using screens before sleep is severely harming your rest - Stop 1-2 hours before bed"))
       ELSE r2

\* app.py: the app-lock ladder over socialMedia, then the entertainment tips (lines 342-387)
app_lock_suggestions(r0, v) ==
    LET r1 ==
          IF v.social_media = V_str("More than 6 hours")
          THEN ListExtend(r0, "app_lock_suggestions",
                  <<A("EMERGENCY: 6+ hours on social media is extremely harmful to mental health"),
                    A("IMMEDIATELY set 1-hour daily limit on ALL social apps"),
                    A("Block Instagram, TikTok, Facebook completely after limit reached"),
                    A("Force grayscale mode on your phone permanently"),
                    A("DELETE social media apps for a 1-week digital detox"),
                    A("Allow access ONLY during 12-1 PM, no exceptions")>>)
          ELSE IF v.social_media = V_str("5--6 hours")
              THEN ListExtend(r0, "app_lock_suggestions",
                      <<A("CRITICAL: 5-6 hours on social media is excessive"),
                        A("Set strict 2-hour daily limit on social apps NOW"),
                        A("Enable app timers: Instagram (30min), TikTok (30min), Twitter (30min)"),
                        A("Switch to grayscale after 8 PM"),
                        A("Disable ALL social media notifications immediately"),
                        A("Schedule specific windows: 12-1 PM and 6-7 PM only")>>)
              ELSE IF v.social_media = V_str("3--4 hours")
                  THEN ListExtend(r0, "app_lock_suggestions",
                          <<A("3-4 hours on social media is above healthy limits"),
                            A("Reduce to 2 hours daily using app timers"),
                            A("Turn off all non-essential notifications"),
                            A("Use grayscale mode after 9 PM"),
                            A("Set a 90-minute daily limit this week")>>)
                  ELSE IF v.social_media = V_str("1--2 hours")
                      THEN ListExtend(r0, "app_lock_suggestions",
                              <<A("Your 1-2 hours of social media is reasonable"),
                                A("Maintain these current healthy limits"),
                                A("Consider reducing to under 1 hour for even better well-being"),
                                A("Keep notifications minimal")>>)
                      ELSE ListExtend(r0, "app_lock_suggestions",
                              <<A("Excellent! Your social media usage is exemplary"),
                                A("You've achieved great digital discipline"),
                                A("Share your strategies with others who struggle"),
                                A("Maintain this healthy boundary")>>)
    IN IF v.entertainment \in {V_str("More than 6 hours"), V_str("5--6 hours")}
       THEN ListInsert(r1, "app_lock_suggestions", 1,
               F("Your entertainment time ({}) is excessive - Set 2-hour daily limit", <<v.entertainment>>))
       ELSE IF v.entertainment \in {V_str("3--4 hours")}
           THEN ListAppend(r1, "app_lock_suggestions",
                   F("Entertainment time ({}) can be reduced - Try 2 hours max", <<v.entertainment>>))
           ELSE r1

\* app.py: the field block, the occupation block and the work-time ergonomics (lines 394-495)
occupation_field_recommendations(r0, v) ==
    LET r1 ==
          IF v.field = V_str("IT")
          THEN IF v.work_time \in {V_str("More than 6 hours"), V_str("5--6 hours")}
              THEN ListExtend(ListExtend(ListExtend(r0, "general_wellness_tips",
                      <<A("IT PROFESSIONAL ALERT: High work screen time is unavoidable in your field"),
                        A("FOCUS: Since you can't reduce work time, optimize QUALITY of screen usage"),
                        A("CRITICAL: Invest in ergonomic setup - monitor at eye level, proper chair"),
                        A("MANDATORY: Pomodoro technique - 25 min coding, 5 min break (non-negotiable)"),
                        A("DEVELOPER SPECIAL: Use dark themes, increase font size, reduce eye strain"),
                        A("CODE CURFEW: No coding 2 hours before bed - blue light disrupts sleep"),
                        A("PROGRAMMER FITNESS: Desk exercises every hour - neck rolls, shoulder shrugs")>>), "app_lock_suggestions",
                      <<A("IT WORKER STRATEGY: Since work screen time is high, ELIMINATE recreational screens"),
                        A("ZERO TOLERANCE: No social media during work breaks - use breaks for eye rest"),
                        A("EVENING RULE: No entertainment screens after work - your eyes need recovery"),
                        A("GAMING BAN: If you're a developer, avoid gaming - you've had enough screen time"),
                        A("PHONE DISCIPLINE: Use phone only for calls/messages, not browsing")>>), "meditation_exercises",
                      <<A("DEVELOPER MEDITATION: 5-minute guided meditation between coding sessions"),
                        A("EYE YOGA: Palming technique - cover eyes with palms for 30 seconds every hour"),
                        A("WALKING MEETINGS: Take calls while walking, not sitting at desk"),
                        A("NATURE BREAKS: Step outside during breaks - no indoor screen alternatives")>>)
              ELSE IF v.work_time \in {V_str("3--4 hours")}
                  THEN ListExtend(r0, "general_wellness_tips",
                          <<A("IT PROFESSIONAL: Moderate work screen time - good balance!"),
                            A("MAINTAIN: Keep work screen time focused and efficient"),
                            A("PREVENTION: Use 20-20-20 rule religiously to prevent eye strain"),
                            A("ERGONOMICS: Proper setup prevents long-term issues")>>)
                  ELSE r0
          ELSE IF v.field = V_str("Non-IT")
              THEN IF v.work_time \in {V_str("More than 6 hours"), V_str("5--6 hours")}
                  THEN ListExtend(r0, "general_wellness_tips",
                          <<A("NON-IT PROFESSIONAL: High screen time unusual for your field"),
                            A("ANALYZE: Is this screen time truly necessary for your work?"),
                            A("OPTIMIZE: Look for ways to reduce digital tasks - use phone calls instead of emails"),
                            A("BATCH WORK: Group screen tasks together, then take longer breaks"),
                            A("ANALOG ALTERNATIVES: Use pen and paper when possible"),
                            A("FACE-TO-FACE: Replace video calls with in-person meetings when possible")>>)
                  ELSE r0
              ELSE r0
        r2 ==
          IF v.occupation = V_str("Student")
          THEN IF v.work_time \in {V_str("More than 6 hours"), V_str("5--6 hours")}
              THEN ListExtend(ListExtend(r1, "general_wellness_tips",
                      <<A("STUDENT ALERT: High study screen time - balance is crucial"),
                        A("STUDY SMART: Use active recall instead of passive screen reading"),
                        A("HANDWRITE NOTES: Better retention and less screen time"),
                        A("PHYSICAL BOOKS: Use printed materials when possible"),
                        A("STUDY GROUPS: In-person collaboration reduces individual screen time"),
                        A("TIME BLOCKING: 45 min study, 15 min screen-free break")>>), "app_lock_suggestions",
                      <<A("STUDENT DISCIPLINE: Block social media during study hours"),
                        A("FOCUS APPS: Use Forest, Cold Turkey during study sessions"),
                        A("NO NETFLIX: Entertainment screens compete with study effectiveness"),
                        A("GAMING LIMITS: Maximum 1 hour after completing all studies")>>)
              ELSE r1
          ELSE IF v.occupation = V_str("Employed")
              THEN ListExtend(r1, "parental_controls",
                      <<F("WORKING PROFESSIONAL ({}): Work-life screen balance is crucial", <<v.field>>),
                        A("BOUNDARIES: Strict separation between work and personal screen time"),
                        A("AFTER-WORK DETOX: No work emails/messages after 6 PM"),
                        A("HOME SANCTUARY: Create device-free zones at home")>>)
              ELSE IF v.occupation \in {V_str("Unemployed"), V_str("Retired")}
                  THEN IF v.total_screen \in {V_str("More than 6 hours"), V_str("5--6 hours")}
                      THEN ListExtend(r1, "general_wellness_tips",
                              <<F("{} LIFESTYLE: High screen time may indicate boredom/isolation", <<Upper(v.occupation)>>),
                                A("PURPOSE: Replace screen time with meaningful activities"),
                                A("SOCIAL CONNECTION: Join clubs, volunteer - real-world interaction"),
                                A("HOBBIES: Develop non-digital interests - gardening, crafts, sports"),
                                A("LEARNING: Take in-person classes instead of online courses")>>)
                      ELSE r1
                  ELSE r1
    IN IF v.work_time \in {V_str("More than 6 hours"), V_str("5--6 hours")}
       THEN IF v.field = V_str("IT")
           THEN ListExtend(r2, "general_wellness_tips",
                   <<A("IT ERGONOMICS: Monitor 20-26 inches away, top of screen at eye level"),
                     A("KEYBOARD POSITION: Elbows at 90 degrees, wrists straight"),
                     A("MOUSE TECHNIQUE: Use whole arm, not just wrist movements")>>)
           ELSE ListExtend(r2, "general_wellness_tips",
                   <<A("GENERAL ERGONOMICS: Proper chair height, feet flat on floor"),
                     A("PHONE POSTURE: Hold phone at eye level to avoid neck strain")>>)
       ELSE IF v.work_time \in {V_str("3--4 hours")}
           THEN ListAppend(r2, "general_wellness_tips",
                   F("{} PROFESSIONAL: Moderate work screen time - maintain good posture", <<v.field>>))
           ELSE r2

\* app.py: stress and anxiety, sleep quality, exercise and eye strain (lines 505-556)
meditation_and_exercise(r0, v) ==
    LET r1 ==
          IF (v.stress.n >= 4 \/ v.anxious.n >= 4)
          THEN ListExtend(r0, "meditation_exercises",
                  <<F("DAILY REQUIREMENT: 15-minute guided meditation (Your stress: {}/5, Anxiety: {}/5)", <<v.stress, v.anxious>>),
                    A("Box breathing 4x daily: Inhale 4s -> Hold 4s -> Exhale 4s -> Hold 4s"),
                    A("30-minute evening yoga specifically for stress relief"),
                    A("Two 20-minute outdoor walks WITHOUT phone - non-negotiable"),
                    A("Progressive muscle relaxation before bed (YouTube: 'PMR guided')"),
                    A("Listen to 432Hz healing music during all screen breaks"),
                    A("5-minute anxiety journaling every evening before bed")>>)
          ELSE IF (v.stress.n >= 3 \/ v.anxious.n >= 3)
              THEN ListExtend(r0, "meditation_exercises",
                      <<F("Daily 10-minute meditation recommended (Stress: {}/5, Anxiety: {}/5)", <<v.stress, v.anxious>>),
                        A("Practice box breathing during stressful moments (3-4 times daily)"),
                        A("15-minute evening yoga or stretching routine"),
                        A("Daily 20-minute mindful walk without devices"),
                        A("Try progressive muscle relaxation 3x per week")>>)
              ELSE ListExtend(r0, "meditation_exercises",
                      <<F("Your stress ({}/5) and anxiety ({}/5) levels are healthy!", <<v.stress, v.anxious>>),
                        A("Continue your current wellness routine"),
                        A("Explore new meditation techniques for variety"),
                        A("Consider deepening your mindfulness practice")>>)
        r2 ==
          IF v.sleep_quality.n <= 2
          THEN ListInsert(r1, "meditation_exercises", 0,
                  F("CRITICAL: Sleep quality ({}/5) is very poor - Try bedtime yoga & sleep meditation apps", <<v.sleep_quality>>))
          ELSE IF v.sleep_quality.n = 3
              THEN ListAppend(r1, "meditation_exercises",
                      F("Sleep quality ({}/5) needs improvement - Evening relaxation routine recommended", <<v.sleep_quality>>))
              ELSE r1
        r3 ==
          IF v.exercise_freq = V_str("Never")
          THEN ListExtend(r2, "meditation_exercises",
                  <<A("URGENT: You're not exercising at all - This is critical!"),
                    A("START TODAY: Take a 20-minute walk right now"),
                    A("GOAL: Exercise 3-4 days per week minimum for mental health"),
                    A("Even 10 minutes daily makes a huge difference")>>)
          ELSE IF v.exercise_freq = V_str("1--2 days per week")
              THEN ListInsert(r2, "meditation_exercises", 2,
                      A("Good start! Increase to 3-4 days per week for optimal mental health"))
              ELSE IF v.exercise_freq = V_str("3--4 days per week")
                  THEN ListAppend(r2, "meditation_exercises",
                          A("Great exercise routine! Maintain 3-4 days per week"))
                  ELSE ListAppend(r2, "meditation_exercises",
                          A("Excellent! Daily exercise is optimal for mental health"))
    IN IF v.eye_strain.n >= 4
       THEN ListInsert(r3, "meditation_exercises", 0,
               F("SEVERE eye strain ({}/5) - Take immediate breaks, use eye drops, reduce brightness", <<v.eye_strain>>))
       ELSE IF v.eye_strain.n >= 3
           THEN ListAppend(r3, "meditation_exercises",
                   F("Moderate eye strain ({}/5) - Increase breaks, adjust lighting", <<v.eye_strain>>))
           ELSE r3

\* app.py: the inserts for an industry with unavoidable screen time and the IT addiction paradox (lines 581-602)
industry_risk_mitigation(r0, v) ==
    LET high_work == v.work_time \in {V_str("More than 6 hours"), V_str("5--6 hours")}
        industry == current_industry(v.field)
        r1 ==
          IF industry.unavoidable_screen_time /\ high_work
          THEN ListInsert(r0, "general_wellness_tips", 0,
                  A("INDUSTRY REALITY: Your profession requires high screen time - we focus on OPTIMIZATION, not reduction"))
          ELSE r0
        r2 ==
          IF industry.unavoidable_screen_time /\ high_work
          THEN ListInsert(r1, "app_lock_suggestions", 0,
                  A("IT PROFESSIONAL STRATEGY: Since work screens are unavoidable, ZERO tolerance for recreational screens"))
          ELSE r1
        r3 ==
          IF industry.unavoidable_screen_time /\ high_work /\ industry.eye_strain_multiplier > 10
          THEN ListInsert(r2, "meditation_exercises", 0,
                  F("IT EYE CARE PROTOCOL: Your field has {}x higher eye strain risk - follow these religiously", <<V_int(industry.eye_strain_multiplier)>>))
          ELSE r2
    IN IF v.addicted \in {V_str("Yes"), V_str("Maybe")} /\ v.field = V_str("IT")
       THEN ListInsert(r3, "parental_controls", 0,
               A("IT ADDICTION PARADOX: You need screens for work but feel addicted - separate work and personal usage completely"))
       ELSE r3

\* app.py: work-life strategies and study optimization (lines 607-637)
work_life_integration(r0, v) ==
    LET high_work == v.work_time \in {V_str("More than 6 hours"), V_str("5--6 hours")}
        work_life_strategies ==
          IF v.field = V_str("IT")
          THEN <<A("IT WORK-LIFE SEPARATION: Use different devices for work and personal"),
                 A("DUAL SETUP: Work computer vs personal computer - never mix"),
                 A("PHONE RULES: Work apps only during work hours"),
                 A("DIGITAL SUNRISE: Start work with intention, not mindless browsing"),
                 A("DIGITAL SUNSET: Hard cutoff - no work screens after 7 PM")>>
          ELSE <<A("PROFESSIONAL BOUNDARIES: Question if all screen time is truly necessary"),
                 A("PHONE FIRST: Call instead of email when possible"),
                 A("ANALOG BACKUP: Use paper for brainstorming and planning"),
                 A("IN-PERSON PRIORITY: Face-to-face meetings over video calls")>>
        study_optimization ==
          <<A("STUDY EFFICIENCY: High screen time suggests inefficient study methods"),
            A("ACTIVE LEARNING: Handwrite notes, use flashcards, teach others"),
            A("PRINT MATERIALS: Use physical textbooks when possible"),
            A("FOCUSED SESSIONS: 90-minute deep work blocks with 20-minute breaks"),
            A("STUDY GROUPS: Collaborative learning reduces individual screen time")>>
        r1 ==
          IF v.occupation = V_str("Employed") /\ high_work
          THEN ListExtend(r0, "parental_controls", work_life_strategies)
          ELSE r0
    IN IF v.occupation = V_str("Student") /\ high_work
       THEN ListExtend(r1, "general_wellness_tips", study_optimization)
       ELSE r1

\* the Yes block tested by an `if` of its own, before the ladder of the
\* other answers: a Yes answer also falls into the ladder's else block
device_addiction_two_ladders(r0, v) ==
    LET r1 ==
          IF v.addicted = V_str("Yes")
          THEN ListExtend(r0, "parental_controls",
                  <<A("You've identified device addiction - This requires immediate action"),
                    A("URGENT: Find an accountability partner for DAILY check-ins"),
                    A("CONSIDER: Professional help - Speak with a therapist about screen addiction"),
                    A("Use aggressive blocking: Cold Turkey (blocks everything), Freedom app"),
                    A("JOIN NOW: r/nosurf community, Digital Detox support groups"),
                    A("Share your screen time with someone you trust EVERY single day"),
                    A("30-day challenge: Reduce screen time by 50%"),
                    A("Accountability: Donate $10 for every day you exceed limits")>>)
          ELSE r0
    IN IF v.addicted = V_str("Maybe")
       THEN ListExtend(r1, "parental_controls",
               <<A("You suspect device addiction - Take this seriously before it worsens"),
                 A("Find an accountability partner for weekly check-ins"),
                 A("Try focus apps: Forest, Freedom, Cold Turkey Blocker"),
                 A("Join digital wellness communities: r/digitalminimalism"),
                 A("Track daily and share progress weekly"),
                 A("Set challenges with friends (lowest screen time wins rewards)")>>)
       ELSE IF v.addicted = V_str("Not sure")
       THEN ListExtend(r1, "parental_controls",
               <<A("Uncertain about addiction? Monitor yourself for 2 weeks"),
                 A("Track everything and assess patterns honestly"),
                 A("Consider finding an accountability buddy"),
                 A("Join supportive communities for guidance")>>)
       ELSE ListExtend(r1, "parental_controls",
               <<A("Good awareness - you don't feel addicted"),
                 A("Continue monitoring to maintain healthy habits"),
                 A("Help others who struggle with screen addiction")>>)

\* app.py: the addiction ladder (lines 640-672)
device_addiction(r0, v) ==
    IF v.addicted = V_str("Yes")
    THEN ListExtend(r0, "parental_controls",
            <<A("You've identified device addiction - This requires immediate action"),
              A("URGENT: Find an accountability partner for DAILY check-ins"),
              A("CONSIDER: Professional help - Speak with a therapist about screen addiction"),
              A("Use aggressive blocking: Cold Turkey (blocks everything), Freedom app"),
              A("JOIN NOW: r/nosurf community, Digital Detox support groups"),
              A("Share your screen time with someone you trust EVERY single day"),
              A("30-day challenge: Reduce screen time by 50%"),
              A("Accountability: Donate $10 for every day you exceed limits")>>)
    ELSE IF v.addicted = V_str("Maybe")
        THEN ListExtend(r0, "parental_controls",
                <<A("You suspect device addiction - Take this seriously before it worsens"),
                  A("Find an accountability partner for weekly check-ins"),
                  A("Try focus apps: Forest, Freedom, Cold Turkey Blocker"),
                  A("Join digital wellness communities: r/digitalminimalism"),
                  A("Track daily and share progress weekly"),
                  A("Set challenges with friends (lowest screen time wins rewards)")>>)
        ELSE IF v.addicted = V_str("Not sure")
            THEN ListExtend(r0, "parental_controls",
                    <<A("Uncertain about addiction? Monitor yourself for 2 weeks"),
                      A("Track everything and assess patterns honestly"),
                      A("Consider finding an accountability buddy"),
                      A("Join supportive communities for guidance")>>)
            ELSE ListExtend(r0, "parental_controls",
                    <<A("Good awareness - you don't feel addicted"),
                      A("Continue monitoring to maintain healthy habits"),
                      A("Help others who struggle with screen addiction")>>)

\* app.py: the age ladder (lines 675-732)
age_specific(r0, v) ==
    IF v.age_group \in {V_str("18--24")}
    THEN IF v.occupation = V_str("Student")
        THEN ListExtend(r0, "parental_controls",
                <<A("STUDENT (18-24): Critical time for building healthy digital habits"),
                  A("ACADEMIC SUCCESS: Screen discipline directly impacts grades"),
                  A("PEER ACCOUNTABILITY: Study groups with screen-time goals"),
                  A("CAREER PREP: Develop focus skills employers value")>>)
        ELSE ListExtend(r0, "parental_controls",
                <<A("YOUNG PROFESSIONAL: Build peer accountability with colleagues"),
                  A("CAREER FOCUS: Replace social media time with skill-building"),
                  A("Your age group is most vulnerable to screen addiction - be vigilant")>>)
    ELSE IF v.age_group \in {V_str("25--34")}
        THEN IF v.field = V_str("IT")
            THEN ListExtend(r0, "parental_controls",
                    <<A("IT PROFESSIONAL (25-34): High-earning potential requires screen discipline"),
                      A("CAREER GROWTH: Focus screen time on learning new technologies"),
                      A("WORK-LIFE BALANCE: Prevent burnout with strict boundaries")>>)
            ELSE ListExtend(r0, "parental_controls",
                    <<A("PROFESSIONAL PRIME: Prioritize career-advancing screen usage"),
                      A("INDUSTRY NETWORKING: Use screens for professional development"),
                      A("PRODUCTIVITY FOCUS: Track how screen habits affect work performance")>>)
        ELSE IF v.age_group \in {V_str("35--44"), V_str("45--54")}
            THEN (LET s1 ==
                      ListExtend(r0, "parental_controls",
                          <<A("PARENT & PROFESSIONAL: You're modeling behavior for your children"),
                            A("FAMILY RULES: Device-free meals and family time"),
                            A("LEADERSHIP: Show younger colleagues healthy screen habits"),
                            A("PARENTAL CONTROLS: Use Screen Time (iOS) or Family Link (Android)"),
                            A("FAMILY CHALLENGES: Create screen-time reduction competitions")>>)
                 IN IF v.field = V_str("IT")
                   THEN ListAppend(s1, "parental_controls",
                           A("IT PARENT SPECIAL: Teach kids that high work screen time doesn't justify recreational excess"))
                   ELSE s1)
            ELSE IF v.age_group = V_str("55+")
                THEN IF v.occupation = V_str("Retired")
                    THEN ListExtend(r0, "parental_controls",
                            <<A("RETIREMENT WISDOM: Use technology to enhance, not replace, real experiences"),
                              A("GRANDPARENT ROLE: Model healthy tech use for grandchildren"),
                              A("EXPLORATION: Use screens to plan real-world activities, not replace them"),
                              A("SOCIAL CONNECTION: Video calls with family, but prioritize in-person visits")>>)
                    ELSE ListExtend(r0, "parental_controls",
                            <<A("SENIOR PROFESSIONAL: Mentor younger generations on digital balance"),
                              A("WISDOM SHARING: Your pre-digital experience is valuable - share it"),
                              A("PERSPECTIVE: Balance technology benefits with traditional approaches")>>)
                ELSE r0

\* the three thresholds as independent ifs: every tier that total_risk
\* exceeds inserts its advisory
risk_based_final_cumulative(r0, total_risk) ==
    LET r1 ==
          IF total_risk > 5000
          THEN ListInsert(r0, "parental_controls", 0,
                  F("ELEVATED RISK ({}/100) - Take action this week, start with accountability partner", <<V_int(total_risk \div 100)>>))
          ELSE r0
        r2 ==
          IF total_risk > 6000
          THEN ListInsert(r1, "parental_controls", 0,
                  F("HIGH RISK ({}/100) - Immediate intervention needed, get support NOW", <<V_int(total_risk \div 100)>>))
          ELSE r1
    IN IF total_risk > 7000
       THEN ListInsert(r2, "parental_controls", 0,
               F("CRITICAL RISK ({}/100) - Seek professional help immediately!", <<V_int(total_risk \div 100)>>))
       ELSE r2

\* app.py: the risk-tier advisory (lines 735-741); total_risk in hundredths
risk_based_final(r0, total_risk) ==
    IF total_risk > 7000
    THEN ListInsert(r0, "parental_controls", 0,
            F("CRITICAL RISK ({}/100) - Seek professional help immediately!", <<V_int(total_risk \div 100)>>))
    ELSE IF total_risk > 6000
        THEN ListInsert(r0, "parental_controls", 0,
                F("HIGH RISK ({}/100) - Immediate intervention needed, get support NOW", <<V_int(total_risk \div 100)>>))
        ELSE IF total_risk > 5000
            THEN ListInsert(r0, "parental_controls", 0,
                    F("ELEVATED RISK ({}/100) - Take action this week, start with accountability partner", <<V_int(total_risk \div 100)>>))
            ELSE r0
\* the risk read only for a prediction that is not healthy: a healthy
\* prediction counts as no risk
RiskOfUnhealthy(prediction) ==
    IF "is_healthy" \in DOMAIN prediction /\ prediction.is_healthy THEN 0
    ELSE IF "risk_scores" \in DOMAIN prediction
    THEN (IF "total_risk" \in DOMAIN prediction.risk_scores
          THEN prediction.risk_scores.total_risk
          ELSE 0)
    ELSE 0

\* risk_scores = prediction.get('risk_scores', {}) and, at line 735,
\* risk_scores.get('total_risk', 0), in hundredths
RiskOf(prediction) ==
    IF "risk_scores" \in DOMAIN prediction
    THEN (IF "total_risk" \in DOMAIN prediction.risk_scores
          THEN prediction.risk_scores.total_risk
          ELSE 0)
    ELSE 0

NoLists == [c \in {} |-> <<>>]

RecommendationsRaised(what) == [raised |-> TRUE, error |-> what, lists |-> NoLists]

\* the first int() of the call that raises, in the order of the code
\* (line 280, then lines 498-502), or a value that is not an error
first_conversion_error(v) ==
    IF v.stress_level.k = "err" THEN v.stress_level
    ELSE IF v.anxious.k = "err" THEN v.anxious
    ELSE IF v.eye_strain.k = "err" THEN v.eye_strain
    ELSE v.sleep_quality

\* the body of generate_recommendations from the accumulator on
generate_from(recommendations0, prediction, ud) ==
    LET v == locals_of(ud)
    IN IF first_conversion_error(v).k = "err"
       THEN RecommendationsRaised(first_conversion_error(v).s)
       ELSE
        LET r1 == wellness_tips(recommendations0, v)
            r2 == app_lock_suggestions(r1, v)
            r3 == occupation_field_recommendations(r2, v)
            r4 == meditation_and_exercise(r3, v)
            r5 == industry_risk_mitigation(r4, v)
            r6 == work_life_integration(r5, v)
            r7 == device_addiction(r6, v)
            r8 == age_specific(r7, v)
        IN [raised |-> FALSE, error |-> "",
            lists |-> risk_based_final(r8, RiskOf(prediction))]

\* RecommendationEngine.generate_recommendations(prediction, user_data),
\* called after a call that built the lists `previous`
generate_recommendations(previous, prediction, ud) ==
    generate_from(new_recommendations(previous), prediction, ud)

----------------------------------------------------------------------------
(* RecommendationEngine.generate_recommendations                           *)
(* (src/category_recommendations.py)                                       *)

CategoryCategories ==
    {"work_screen_recommendations", "social_media_recommendations",
     "entertainment_recommendations", "general_wellness_tips"}

\* recommendations = {...} (lines 11-16)
category_new_recommendations == [c \in CategoryCategories |-> <<>>]

\* the locals read from user_data (lines 19-28)
category_locals_of(ud) ==
    [occupation |-> Get(ud, "occupation", V_str("")),
     field |-> Get(ud, "field", V_str("")),
     age_group |-> Get(ud, "ageGroup", V_str("")),
     work_time |-> Get(ud, "workTime", V_str("")),
     social_media |-> Get(ud, "socialMedia", V_str("")),
     entertainment |-> Get(ud, "entertainment", V_str("")),
     total_screen |-> Get(ud, "totalScreenTime", V_str("")),
     stress_level |-> PyInt(Get(ud, "stress", V_int(3))),
     sleep_before_screen |-> Get(ud, "screenBeforeSleep", V_str("")),
     addicted |-> Get(ud, "addicted", V_str(""))]

\* category_recommendations.py: work screen time (lines 32-78)
category_work_screen(r0, v) ==
    IF v.work_time \in {V_str("More than 6 hours"), V_str("5--6 hours")}
    THEN (LET s2 ==
              IF v.field = V_str("IT")
              THEN ListExtend(r0, "work_screen_recommendations",
                      <<A("IT PROFESSIONAL REALITY: Your high work screen time is unavoidable - focus on OPTIMIZATION"),
                        A("ERGONOMIC SETUP: Monitor 20-26 inches away, top of screen at eye level"),
                        A("PROPER POSITIONING: Elbows at 90 degrees, wrists straight while typing"),
                        A("POMODORO TECHNIQUE: 25 minutes coding, 5 minutes break (non-negotiable)"),
                        A("DEVELOPER EYE CARE: Use dark themes, increase font size, reduce blue light"),
                        A("CODE CURFEW: No work screens 2 hours before bed - blue light disrupts sleep"),
                        A("DESK EXERCISES: Neck rolls, shoulder shrugs every hour"),
                        A("MOUSE TECHNIQUE: Use whole arm movement, not just wrist")>>)
              ELSE IF v.field = V_str("Non-IT")
                  THEN ListExtend(r0, "work_screen_recommendations",
                          <<A("UNUSUAL PATTERN: High work screen time is uncommon for your field"),
                            A("NECESSITY CHECK: Question if all this screen time is truly required"),
                            A("PHONE FIRST: Replace emails with phone calls when possible"),
                            A("ANALOG ALTERNATIVES: Use pen and paper for brainstorming and notes"),
                            A("IN-PERSON MEETINGS: Choose face-to-face over video calls"),
                            A("BATCH PROCESSING: Group all screen tasks together, then take longer breaks"),
                            A("ERGONOMICS: Proper chair height, feet flat on floor")>>)
                  ELSE r0
         IN IF v.occupation = V_str("Student")
           THEN ListExtend(s2, "work_screen_recommendations",
                   <<A("STUDY EFFICIENCY: High study screen time suggests inefficient methods"),
                     A("ACTIVE LEARNING: Handwrite notes for better retention and less screen time"),
                     A("PHYSICAL MATERIALS: Use printed textbooks and materials when possible"),
                     A("FOCUSED SESSIONS: 90-minute deep work blocks with 20-minute screen-free breaks"),
                     A("STUDY GROUPS: Collaborative learning reduces individual screen time"),
                     A("READING TECHNIQUE: Use physical books for leisure reading")>>)
           ELSE s2)
    ELSE IF v.work_time \in {V_str("3--4 hours")}
        THEN ListExtend(r0, "work_screen_recommendations",
                <<F("MODERATE WORK USAGE ({}): Good balance for your profession", <<v.field>>),
                  A("MAINTAIN EFFICIENCY: Keep work screen time focused and productive"),
                  A("PREVENTION: Use 20-20-20 rule to prevent eye strain buildup"),
                  A("POSTURE CHECK: Maintain good ergonomics even for moderate usage")>>)
        ELSE IF v.work_time \in {V_str("1--2 hours"), V_str("Less than 1 hour")}
            THEN ListExtend(r0, "work_screen_recommendations",
                    <<F("EXCELLENT WORK BALANCE ({}): Your work screen time is healthy", <<v.field>>),
                      A("MAINTAIN: Keep work screen usage efficient and purposeful"),
                      A("ROLE MODEL: Share your strategies with colleagues who struggle")>>)
            ELSE r0

\* category_recommendations.py: social media (lines 82-131)
category_social_media(r0, v) ==
    IF v.social_media = V_str("More than 6 hours")
    THEN (LET s3 ==
              ListExtend(r0, "social_media_recommendations",
                  <<A("CRITICAL ALERT: 6+ hours on social media is severely damaging your mental health"),
                    A("IMMEDIATE ACTION: Set 1-hour daily limit on ALL social apps RIGHT NOW"),
                    A("APP REMOVAL: DELETE Instagram, TikTok, Facebook for a 1-week digital detox"),
                    A("STRICT SCHEDULE: Allow access ONLY during 12-1 PM, no exceptions"),
                    A("GRAYSCALE MODE: Force your phone to grayscale permanently"),
                    A("NOTIFICATION BAN: Disable ALL social media notifications immediately"),
                    A("DOPAMINE RESET: Replace social scrolling with real-world activities")>>)
         IN IF v.field = V_str("IT")
           THEN ListInsert(s3, "social_media_recommendations", 1,
                   A("IT WORKER CRITICAL: Your work already requires high screen time - ZERO tolerance for social media"))
           ELSE s3)
    ELSE IF v.social_media = V_str("5--6 hours")
        THEN ListExtend(r0, "social_media_recommendations",
                <<A("HIGH RISK: 5-6 hours on social media is excessive and harmful"),
                  A("URGENT LIMIT: Set strict 2-hour daily limit using app timers"),
                  A("APP CONTROLS: Instagram (30min), TikTok (30min), Twitter (30min) maximum"),
                  A("EVENING GRAYSCALE: Switch to grayscale after 8 PM"),
                  A("NOTIFICATION CLEANUP: Disable all non-essential notifications"),
                  A("TIME WINDOWS: Limit access to 12-1 PM and 6-7 PM only")>>)
        ELSE IF v.social_media = V_str("3--4 hours")
            THEN ListExtend(r0, "social_media_recommendations",
                    <<A("ABOVE HEALTHY LIMITS: 3-4 hours on social media needs reduction"),
                      A("TARGET REDUCTION: Aim for 2 hours daily using built-in app timers"),
                      A("NOTIFICATION CONTROL: Turn off all non-essential alerts"),
                      A("NIGHT MODE: Use grayscale mode after 9 PM"),
                      A("WEEKLY GOAL: Reduce by 30 minutes this week")>>)
            ELSE IF v.social_media = V_str("1--2 hours")
                THEN ListExtend(r0, "social_media_recommendations",
                        <<A("REASONABLE USAGE: Your 1-2 hours of social media is acceptable"),
                          A("MAINTAIN LIMITS: Keep current healthy boundaries"),
                          A("OPTIMIZATION: Consider reducing to under 1 hour for even better wellbeing"),
                          A("MINIMAL NOTIFICATIONS: Keep only essential alerts enabled")>>)
                ELSE ListExtend(r0, "social_media_recommendations",
                        <<A("EXEMPLARY CONTROL: Your social media usage is outstanding"),
                          A("DIGITAL DISCIPLINE: You've mastered healthy social media habits"),
                          A("MENTOR OTHERS: Share your strategies with friends who struggle"),
                          A("MAINTAIN EXCELLENCE: Keep this healthy boundary")>>)

\* category_recommendations.py: entertainment (lines 135-174)
category_entertainment(r0, v) ==
    IF v.entertainment = V_str("More than 6 hours")
    THEN ListExtend(r0, "entertainment_recommendations",
            <<A("EXCESSIVE ENTERTAINMENT: 6+ hours is severely impacting your life balance"),
              A("EMERGENCY LIMIT: Set strict 2-hour daily maximum immediately"),
              A("STREAMING CONTROL: Use Netflix/YouTube time limits and parental controls"),
              A("REPLACEMENT ACTIVITIES: Find real-world hobbies to replace screen entertainment"),
              A("DEVICE REMOVAL: Remove entertainment apps from bedroom and dining areas"),
              A("SCHEDULED VIEWING: Only 7-9 PM for entertainment screens")>>)
    ELSE IF v.entertainment = V_str("5--6 hours")
        THEN ListExtend(r0, "entertainment_recommendations",
                <<A("HIGH ENTERTAINMENT USAGE: 5-6 hours is above healthy limits"),
                  A("REDUCTION TARGET: Aim for 3 hours daily maximum"),
                  A("MINDFUL VIEWING: Choose quality content over mindless scrolling"),
                  A("ACTIVE ALTERNATIVES: Replace 2 hours with physical activities"),
                  A("EVENING LIMITS: No entertainment screens after 9 PM")>>)
        ELSE IF v.entertainment = V_str("3--4 hours")
            THEN ListExtend(r0, "entertainment_recommendations",
                    <<A("MODERATE ENTERTAINMENT: 3-4 hours can be optimized"),
                      A("QUALITY FOCUS: Choose intentional viewing over random browsing"),
                      A("BALANCE GOAL: Try to reduce to 2-3 hours daily"),
                      A("SCHEDULED VIEWING: Set specific times for entertainment")>>)
            ELSE IF v.entertainment = V_str("1--2 hours")
                THEN ListExtend(r0, "entertainment_recommendations",
                        <<A("HEALTHY ENTERTAINMENT: Your 1-2 hours is well-balanced"),
                          A("QUALITY CONTENT: Continue choosing meaningful entertainment"),
                          A("MAINTAIN BALANCE: Keep this healthy entertainment routine")>>)
                ELSE ListExtend(r0, "entertainment_recommendations",
                        <<A("EXCELLENT BALANCE: Your entertainment screen time is optimal"),
                          A("LIFE BALANCE: You prioritize real-world activities perfectly"),
                          A("INSPIRATION: You're a role model for balanced living")>>)

\* category_recommendations.py: general wellness tips (lines 179-220)
category_general_wellness(r0, v) ==
    LET r1 ==
          IF v.total_screen = V_str("More than 6 hours")
          THEN ListExtend(r0, "general_wellness_tips",
                  <<A("TOTAL SCREEN TIME CRITICAL: 6+ hours daily is severely harmful"),
                    A("MANDATORY BREAKS: 10-minute break EVERY 30 minutes of screen use"),
                    A("EYE PROTECTION: 20-20-20 rule is non-negotiable for your usage level"),
                    A("DEVICE-FREE ZONES: Bedroom, bathroom, and dining area must be screen-free"),
                    A("DIGITAL SUNSET: All screens off 1-2 hours before bedtime")>>)
          ELSE IF v.total_screen = V_str("5--6 hours")
              THEN ListExtend(r0, "general_wellness_tips",
                      <<A("HIGH TOTAL USAGE: 5-6 hours daily is above healthy limits"),
                        A("REGULAR BREAKS: 5-minute break every hour of screen use"),
                        A("EYE CARE: Practice 20-20-20 rule consistently"),
                        A("DIGITAL BOUNDARIES: Implement 'Digital Sunset' routine")>>)
              ELSE r0
        r2 ==
          IF v.stress_level.n >= 4
          THEN ListInsert(r1, "general_wellness_tips", 0,
                  F("HIGH STRESS ALERT: Your stress level ({}/5) requires immediate screen time reduction", <<v.stress_level>>))
          ELSE r1
        r3 ==
          IF v.sleep_before_screen \in {V_str("Always"), V_str("Often")}
          THEN ListAppend(r2, "general_wellness_tips",
                  A("SLEEP DISRUPTION: Using screens before bed is severely harming your rest quality"))
          ELSE r2
        r4 ==
          IF v.addicted = V_str("Yes")
          THEN ListInsert(r3, "general_wellness_tips", 0,
                  A("ADDICTION ACKNOWLEDGED: You recognize device addiction - seek accountability partner immediately"))
          ELSE r3
    IN IF (v.age_group \in {V_str("18--24")} /\ v.occupation = V_str("Student"))
       THEN ListAppend(r4, "general_wellness_tips",
               A("STUDENT SUCCESS: Your screen habits directly impact academic performance"))
       ELSE IF (v.field = V_str("IT") /\ v.work_time \in {V_str("More than 6 hours"), V_str("5--6 hours")})
           THEN ListAppend(r4, "general_wellness_tips",
                   A("IT PROFESSIONAL: Since work screens are unavoidable, eliminate ALL recreational screen time"))
           ELSE r4
\* generate_recommendations(prediction, user_data) of
\* category_recommendations.py
category_generate_recommendations(prediction, ud) ==
    LET v == category_locals_of(ud)
    IN IF v.stress_level.k = "err"
       THEN RecommendationsRaised(v.stress_level.s)
       ELSE
        LET r1 == category_work_screen(category_new_recommendations, v)
            r2 == category_social_media(r1, v)
            r3 == category_entertainment(r2, v)
        IN [raised |-> FALSE, error |-> "",
            lists |-> category_general_wellness(r3, v)]

----------------------------------------------------------------------------
(* Inputs: reference surveys and the answers a client can give *)

\* A dict from a set of <<key, value>> pairs with distinct keys
DictOf(pairs) ==
    [x \in {p[1] : p \in pairs} |-> (CHOOSE p \in pairs : p[1] = x)[2]]

\* no answer at all
SurveyEmpty == EmptyDict

\* end-to-end scenario 1 of the specification
SurveyScenario1 ==
    DictOf({<<"totalScreenTime", V_str("More than 6 hours")>>,
            <<"socialMedia", V_str("More than 6 hours")>>,
            <<"entertainment", V_str("3--4 hours")>>,
            <<"workTime", V_str("1--2 hours")>>,
            <<"sleepDuration", V_str("5--6")>>,
            <<"sleepQuality", V_int(2)>>,
            <<"stress", V_int(5)>>,
            <<"anxious", V_int(4)>>,
            <<"eyeStrain", V_int(4)>>,
            <<"exercise", V_str("Never")>>,
            <<"addicted", V_str("Yes")>>,
            <<"ageGroup", V_str("18--24")>>})

\* end-to-end scenario 2 of the specification: the healthiest brackets
SurveyScenario2 ==
    DictOf({<<"totalScreenTime", V_str("Less than 1 hour")>>,
            <<"socialMedia", V_str("Less than 1 hour")>>,
            <<"entertainment", V_str("Less than 1 hour")>>,
            <<"workTime", V_str("Less than 1 hour")>>,
            <<"sleepDuration", V_str("More than 8")>>,
            <<"sleepQuality", V_int(5)>>,
            <<"stress", V_int(1)>>,
            <<"anxious", V_int(1)>>,
            <<"eyeStrain", V_int(1)>>,
            <<"exercise", V_str("Daily")>>,
            <<"addicted", V_str("No")>>})

\* every answer at the top of its range, for an employed IT worker
SurveyAllMax ==
    DictOf({<<"totalScreenTime", V_str("More than 6 hours")>>,
            <<"socialMedia", V_str("More than 6 hours")>>,
            <<"entertainment", V_str("More than 6 hours")>>,
            <<"workTime", V_str("More than 6 hours")>>,
            <<"sleepDuration", V_str("More than 8")>>,
            <<"screenBeforeSleep", V_str("Always")>>,
            <<"sleepQuality", V_int(5)>>,
            <<"stress", V_int(5)>>,
            <<"anxious", V_int(5)>>,
            <<"eyeStrain", V_int(5)>>,
            <<"exercise", V_str("Daily")>>,
            <<"addicted", V_str("Yes")>>,
            <<"occupation", V_str("Employed")>>,
            <<"field", V_str("IT")>>})

\* every answer at the bottom of its range, and nothing but the twelve
\* answers
SurveyAllZero ==
    DictOf({<<"totalScreenTime", V_str("Less than 1 hour")>>,
            <<"socialMedia", V_str("Less than 1 hour")>>,
            <<"entertainment", V_str("Less than 1 hour")>>,
            <<"workTime", V_str("Less than 1 hour")>>,
            <<"sleepDuration", V_str("Less than 5")>>,
            <<"screenBeforeSleep", V_str("Never")>>,
            <<"sleepQuality", V_int(1)>>,
            <<"stress", V_int(1)>>,
            <<"anxious", V_int(1)>>,
            <<"eyeStrain", V_int(1)>>,
            <<"exercise", V_str("Never")>>,
            <<"addicted", V_str("No")>>})

\* the answers that give the highest risk, for an employed IT worker
SurveyWorst ==
    DictOf({<<"totalScreenTime", V_str("More than 6 hours")>>,
            <<"socialMedia", V_str("More than 6 hours")>>,
            <<"entertainment", V_str("More than 6 hours")>>,
            <<"workTime", V_str("More than 6 hours")>>,
            <<"sleepDuration", V_str("Less than 5")>>,
            <<"screenBeforeSleep", V_str("Always")>>,
            <<"sleepQuality", V_int(1)>>,
            <<"stress", V_int(5)>>,
            <<"anxious", V_int(5)>>,
            <<"eyeStrain", V_int(5)>>,
            <<"exercise", V_str("Never")>>,
            <<"addicted", V_str("Yes")>>,
            <<"occupation", V_str("Employed")>>,
            <<"field", V_str("IT")>>})

\* middle answers whose total_risk is exactly 50, the fallback threshold
SurveyBorderline ==
    DictOf({<<"totalScreenTime", V_str("3--4 hours")>>,
            <<"socialMedia", V_str("3-4 hours")>>,
            <<"entertainment", V_str("1--2 hours")>>,
            <<"workTime", V_str("3--4 hours")>>,
            <<"sleepDuration", V_str("6-7")>>,
            <<"screenBeforeSleep", V_str("Sometimes")>>,
            <<"sleepQuality", V_int(3)>>,
            <<"stress", V_int(3)>>,
            <<"anxious", V_int(2)>>,
            <<"eyeStrain", V_int(2)>>,
            <<"exercise", V_str("3--4 days per week")>>,
            <<"addicted", V_str("Not sure")>>,
            <<"occupation", V_str("Employed")>>})

\* a client that sends the hyphen forms and an exercise answer that is in
\* no vocabulary
SurveyHyphenForms ==
    DictOf({<<"totalScreenTime", V_str("5-6 hours")>>,
            <<"socialMedia", V_str("1-2 hours")>>,
            <<"entertainment", V_str("3-4 hours")>>,
            <<"workTime", V_str("5-6 hours")>>,
            <<"sleepDuration", V_str("7-8")>>,
            <<"screenBeforeSleep", V_str("Often")>>,
            <<"sleepQuality", V_int(4)>>,
            <<"stress", V_int(2)>>,
            <<"anxious", V_int(2)>>,
            <<"eyeStrain", V_int(3)>>,
            <<"exercise", V_str("Weekly")>>,
            <<"addicted", V_str("Maybe")>>,
            <<"occupation", V_str("Student")>>,
            <<"field", V_str("Non-IT")>>})

SurveyProfiles ==
    {SurveyEmpty, SurveyScenario1, SurveyScenario2, SurveyAllMax,
     SurveyAllZero, SurveyWorst, SurveyBorderline, SurveyHyphenForms}

\* the highest integer a client sends on a 1-5 scale question (the scale
\* answers pass through preprocess_input unchanged, whatever their value)
MaxScale == 8

\* the number of answers by which an input may differ from a reference survey
MaxEdits == 1

ScaleKeys ==
    {"Sleep quality (1--5)", "Stress due to screen usage",
     "Anxious without device", "Eye strain or headache"}

ContextKeys == {"occupation", "field"}

ContextValues(x) ==
    IF x = "occupation"
    THEN {V_str(""), V_str("Student"), V_str("Employed"), V_str("Unemployed")}
    ELSE {V_str(""), V_str("IT"), V_str("Non-IT")}

\* the values a key of a normalized feature mapping can hold
FeatureValues(b) ==
    IF b \in OrdinalKeys
    THEN {V_int(ordinal_mappings[b][l]) : l \in DOMAIN ordinal_mappings[b]}
    ELSE {V_int(i) : i \in 0..MaxScale}

NoEncoders == [loaded |-> FALSE, classes |-> [x \in {} |-> <<>>]]

\* the user_context predict builds from a survey
ContextOf(ud) ==
    Context([x \in {"occupation", "field", "ageGroup"} |-> Get(ud, x, V_str(""))])

\* the scoring features of a survey
FeaturesOf(ud) ==
    LET pd == preprocess_input(NoEncoders, ud)
    IN [b \in DOMAIN pd \cap (OrdinalKeys \cup ScaleKeys) |-> pd[b]]

\* the number of entries in which two dicts differ
DictDistance(d1, d2) ==
    Cardinality({x \in DOMAIN d1 \cup DOMAIN d2 :
                    \/ x \notin DOMAIN d1
                    \/ x \notin DOMAIN d2
                    \/ d1[x] # d2[x]})

ContextDistance(c1, c2) ==
    IF c1.is_none # c2.is_none THEN 1 ELSE DictDistance(c1.d, c2.d)

\* the reference inputs of calculate_risk_scores
ScoreProfiles == {<<FeaturesOf(s), ContextOf(s)>> : s \in SurveyProfiles}

NearProfile(pd, ctx) ==
    \E p \in ScoreProfiles :
        DictDistance(pd, p[1]) + ContextDistance(ctx, p[2]) <= MaxEdits


----------------------------------------------------------------------------
(* State *)

NotLoaded == "None"
Loaded == "loaded"

\* nothing was called yet
NoReturn == [raised |-> FALSE, error |-> "not called"]

\* the predictor before load_models ran (__init__, lines 31-34)
PredictorFresh ==
    /\ model = NotLoaded
    /\ scaler = NotLoaded
    /\ label_encoders = NoEncoders
    /\ feature_names = NotLoaded

\* generate_recommendations was not called yet
NotGenerated == [raised |-> FALSE, error |-> "not called", lists |-> NoLists]

NoEarlier == [called |-> FALSE]

NoCalls == [c \in {} |-> "idle"]

\* no recommendation was asked for and no request is in flight
EngineIdle ==
    /\ prediction_in = EmptyDict
    /\ recommendations = NotGenerated
    /\ earlier = NoEarlier
    /\ calls = NoCalls
    /\ DbIdle

----------------------------------------------------------------------------
(* SpecScore: calculate_risk_scores applied to normalized feature mappings *)

InitScore ==
    /\ PredictorFresh
    /\ EngineIdle
    /\ load_pc = "failed"
    /\ user_data = EmptyDict
    /\ \E p \in ScoreProfiles :
        /\ processed_data = p[1]
        /\ user_context = p[2]
    /\ op = "none"
    /\ invocation = "none"
    /\ ret = NoReturn

\* risk_scores = calculate_risk_scores(pd, ctx)
Score(pd, ctx) ==
    /\ NearProfile(pd, ctx)
    /\ processed_data' = pd
    /\ user_context' = ctx
    /\ op' = "calculate_risk_scores"
    /\ ret' = calculate_risk_scores(pd, ctx)
    /\ UNCHANGED <<model, scaler, label_encoders, feature_names, load_pc,
                   user_data, invocation>>
    /\ UNCHANGED engineVars
    /\ UNCHANGED dbVars

ScoreAgain == Score(processed_data, user_context)

ScoreWithFeature ==
    \E b \in OrdinalKeys \cup ScaleKeys :
        \E v \in FeatureValues(b) :
            Score(Put(processed_data, b, v), user_context)

ScoreWithoutFeature ==
    \E b \in DOMAIN processed_data :
        Score(Del(processed_data, b), user_context)

ScoreWithContext ==
    \E x \in ContextKeys :
        \E v \in ContextValues(x) :
            Score(processed_data, Context(Put(user_context.d, x, v)))

ScoreWithoutContextKey ==
    \E x \in DOMAIN user_context.d :
        Score(processed_data, Context(Del(user_context.d, x)))

ScoreNoContext == Score(processed_data, NoContext)

NextScore ==
    \/ ScoreAgain
    \/ ScoreWithFeature
    \/ ScoreWithoutFeature
    \/ ScoreWithContext
    \/ ScoreWithoutContextKey
    \/ ScoreNoContext

SpecScore == InitScore /\ [][NextScore]_vars

Scored == op = "calculate_risk_scores" /\ ~ret.raised

----------------------------------------------------------------------------
(* Claims about calculate_risk_scores, checked under SpecScore *)

\* processed_data with the value under b one step higher
Bumped(b) == Put(processed_data, b, V_int(processed_data[b].n + 1))

\* b is answered and one step higher is still a value of b's range
CanBump(b) ==
    /\ b \in DOMAIN processed_data
    /\ V_int(processed_data[b].n + 1) \in FeatureValues(b)

\* C1: the total_risk that calculate_risk_scores returns is never negative,
\* for every feature mapping and every user context.
C1_TotalRiskNonNegative == Scored => ret.total_risk >= 0

\* C1 witness: a call whose weighted sum is negative, so that the floor acted.
C1_Witness ==
    /\ Scored
    /\ total_risk_of(processed_data, user_context) < 0
    /\ ret.total_risk = 0

RiskRaisingKeys ==
    {"Average total screen time per day", "Social Media (hours)",
     "Entertainment (hours)", "Work/Education (hours)",
     "Stress due to screen usage", "Anxious without device",
     "Eye strain or headache", "Feel addicted to devices"}

\* C2 (as claimed): one step more of screen time, social media,
\* entertainment, work, stress, anxiety, eye strain or addiction, everything
\* else and the user context fixed, never lowers the returned total_risk.
C2_RaisingInputNeverLowersRisk ==
    Scored =>
        \A b \in RiskRaisingKeys :
            CanBump(b) =>
                calculate_risk_scores(Bumped(b), user_context).total_risk
                    >= ret.total_risk

RiskLoweringKeys ==
    {"Exercise frequency", "Average sleep duration (hours)",
     "Sleep quality (1--5)"}

\* C3: one step more of exercise, sleep duration or sleep quality,
\* everything else and the user context fixed, never raises the returned
\* total_risk.
C3_LoweringInputNeverRaisesRisk ==
    Scored =>
        \A b \in RiskLoweringKeys :
            CanBump(b) =>
                calculate_risk_scores(Bumped(b), user_context).total_risk
                    <= ret.total_risk

\* C3 witness: a call for which one more step of each of the three inputs
\* is possible and strictly lowers the returned total_risk.
C3_Witness ==
    /\ Scored
    /\ \A b \in RiskLoweringKeys :
        /\ CanBump(b)
        /\ calculate_risk_scores(Bumped(b), user_context).total_risk
              < ret.total_risk

\* C4 (as claimed): a call with a 1-5 scale answer absent returns exactly
\* the scores of the call with that answer present with value 3.
C4_AbsentScaleScoresAsThree ==
    Scored =>
        \A b \in ScaleKeys :
            b \notin DOMAIN processed_data =>
                ret = calculate_risk_scores(Put(processed_data, b, V_int(3)),
                                            user_context)

\* every 1-5 scale answer is absent or in 1..5 (the ordinals are in range
\* by construction)
InValidRanges ==
    \A b \in ScaleKeys \cap DOMAIN processed_data :
        processed_data[b].n \in 1..5

\* C9: for inputs in their valid ranges and every user context,
\* screen_index, sleep_health and wellbeing_score lie in [0,100].
C9_IndicesWithinBounds ==
    (Scored /\ InValidRanges) =>
        /\ ret.screen_index >= 0 /\ ret.screen_index <= 10000
        /\ ret.sleep_health >= 0 /\ ret.sleep_health <= 10000
        /\ ret.wellbeing_score >= 0 /\ ret.wellbeing_score <= 10000

\* C9 witness: the all-maximum extreme, where 1.5 * total_risk exceeds 100
\* and screen_index is clamped to 100.
C9_Witness ==
    /\ Scored
    /\ InValidRanges
    /\ processed_data = FeaturesOf(SurveyWorst)
    /\ total_risk_of(processed_data, user_context) * 15 > 100000
    /\ ret.screen_index = 10000

----------------------------------------------------------------------------
(* SpecNorm: preprocess_input applied to survey responses *)

OrdinalFrontendKeys ==
    {"totalScreenTime", "socialMedia", "entertainment", "workTime",
     "sleepDuration", "screenBeforeSleep", "exercise", "addicted"}

\* strings that are a label of some vocabulary but not of every one, and
\* strings that are a label of none
StrayLabels == {"", "less than 1 hour", "5--6", "Never", "3-4 hours"}

\* what a client can answer to a question with an ordinal vocabulary
LabelAnswers(x) ==
    {V_str(l) : l \in DOMAIN ordinal_mappings[field_mapping[x]] \cup StrayLabels}

NearSurvey(ud) ==
    \E s \in SurveyProfiles : DictDistance(ud, s) <= MaxEdits

InitNorm ==
    /\ PredictorFresh
    /\ EngineIdle
    /\ load_pc = "failed"
    /\ user_data \in SurveyProfiles
    /\ processed_data = EmptyDict
    /\ user_context = NoContext
    /\ op = "none"
    /\ invocation = "none"
    /\ ret = NoReturn

\* processed_data = preprocess_input(ud)
Normalize(ud) ==
    /\ NearSurvey(ud)
    /\ user_data' = ud
    /\ processed_data' = preprocess_input(label_encoders, ud)
    /\ op' = "preprocess_input"
    /\ UNCHANGED <<model, scaler, label_encoders, feature_names, load_pc,
                   user_context, invocation, ret>>
    /\ UNCHANGED engineVars
    /\ UNCHANGED dbVars

NormalizeAgain == Normalize(user_data)

NormalizeWithAnswer ==
    \E x \in OrdinalFrontendKeys :
        \E v \in LabelAnswers(x) :
            Normalize(Put(user_data, x, v))

NormalizeWithoutAnswer ==
    \E x \in DOMAIN user_data : Normalize(Del(user_data, x))

NextNorm ==
    \/ NormalizeAgain
    \/ NormalizeWithAnswer
    \/ NormalizeWithoutAnswer

SpecNorm == InitNorm /\ [][NextNorm]_vars

\* The vocabulary tables of the specification (section 4.1): for each field
\* the labels of ordinal 0, 1, 2, ... in order, each with its en-dash and
\* its hyphen form.
HoursLabels ==
    <<{"Less than 1 hour"}, {"1--2 hours", "1-2 hours"},
      {"3--4 hours", "3-4 hours"}, {"5--6 hours", "5-6 hours"},
      {"More than 6 hours"}>>

DocumentedLabels(x) ==
    CASE x \in {"totalScreenTime", "socialMedia", "entertainment", "workTime"} ->
            HoursLabels
      [] x = "sleepDuration" ->
            <<{"Less than 5"}, {"5--6", "5-6"}, {"6--7", "6-7"},
              {"7--8", "7-8"}, {"More than 8"}>>
      [] x = "screenBeforeSleep" ->
            <<{"Never"}, {"Rarely"}, {"Sometimes"}, {"Often"}, {"Always"}>>
      [] x = "exercise" ->
            <<{"Never"}, {"1--2 days per week", "1-2 days per week"},
              {"3--4 days per week", "3-4 days per week"}, {"Daily"}>>
      [] x = "addicted" ->
            <<{"No"}, {"Not sure"}, {"Maybe"}, {"Yes"}>>

\* C10: preprocess_input gives every label of a field's vocabulary its
\* documented integer, the same for the en-dash and the hyphen form, and
\* gives every other string 0, for each of the eight ordinal fields.
C10_OrdinalMappingTotal ==
    op = "preprocess_input" =>
        \A x \in OrdinalFrontendKeys \cap DOMAIN user_data :
            LET labels == DocumentedLabels(x)
                out == processed_data[field_mapping[x]]
            IN /\ \A i \in 1..Len(labels) :
                    user_data[x].s \in labels[i] => out = V_int(i - 1)
               /\ (\A i \in 1..Len(labels) : user_data[x].s \notin labels[i])
                    => out = V_int(0)

\* C10 witness: a survey normalized with a hyphen-form label of ordinal 3
\* and, under another field, a string outside that field's vocabulary.
C10_Witness ==
    /\ op = "preprocess_input"
    /\ \E x \in OrdinalFrontendKeys \cap DOMAIN user_data :
        /\ user_data[x] = V_str("5-6 hours")
        /\ processed_data[field_mapping[x]] = V_int(3)
    /\ \E x \in OrdinalFrontendKeys \cap DOMAIN user_data :
        /\ user_data[x].s \notin DOMAIN ordinal_mappings[field_mapping[x]]
        /\ processed_data[field_mapping[x]] = V_int(0)

----------------------------------------------------------------------------
(* Spec: the predictor built at start-up, then serving predict calls *)

LoadOrder == <<"model", "scaler", "label_encoders", "feature_names">>

\* the position of a joblib.load in load_models; past the last one for "none"
LoadPosition(step) ==
    IF step = "none" THEN Len(LoadOrder) + 1
    ELSE CHOOSE i \in 1..Len(LoadOrder) : LoadOrder[i] = step

\* the joblib.load of `step` ran and returned before the one that raised
LoadedBefore(step, fail_at) == LoadPosition(step) < LoadPosition(fail_at)

\* what label_encoders.pkl can hold: a dict from column name to a fitted
\* encoder, given by the classes it was fitted on
EncoderArtifacts ==
    {[x \in {} |-> <<>>],
     [x \in {"occupation"} |-> <<"Employed", "Student", "Unemployed">>]}

Init ==
    /\ PredictorFresh
    /\ EngineIdle
    /\ load_pc = "start"
    /\ user_data = EmptyDict
    /\ processed_data = EmptyDict
    /\ user_context = NoContext
    /\ op = "none"
    /\ invocation = "none"
    /\ ret = NoReturn

\* load_models: the four loads in order inside one try; the first one that
\* raises ends the method and leaves the earlier assignments in place
load_models ==
    /\ load_pc = "start"
    /\ \E fail_at \in {"model", "scaler", "label_encoders", "feature_names", "none"} :
        \E classes \in EncoderArtifacts :
            /\ model' = IF LoadedBefore("model", fail_at) THEN Loaded ELSE NotLoaded
            /\ scaler' = IF LoadedBefore("scaler", fail_at) THEN Loaded ELSE NotLoaded
            /\ label_encoders' =
                    IF LoadedBefore("label_encoders", fail_at)
                    THEN [loaded |-> TRUE, classes |-> classes]
                    ELSE NoEncoders
            /\ feature_names' =
                    IF LoadedBefore("feature_names", fail_at) THEN Loaded ELSE NotLoaded
            /\ load_pc' = IF fail_at = "none" THEN "loaded" ELSE "failed"
    /\ UNCHANGED <<user_data, processed_data, user_context, op, invocation, ret>>
    /\ UNCHANGED engineVars
    /\ UNCHANGED dbVars

\* How the classifier invocation of one call behaves: the step of the try
\* block that raises ("none" when no step does), and what the classifier
\* answers when none does (probability in hundredths).
InvocationSteps == {"reindex", "scale", "predict", "predict_proba"}

ClassifierOutcomes ==
    {[failed_at |-> st, prediction |-> 0, probability |-> 0] : st \in InvocationSteps}
    \cup {[failed_at |-> "none", prediction |-> y, probability |-> 90] : y \in {0, 1}}

\* the columns the scaler and the model were fitted on: the training
\* data's column names, which are the names field_mapping maps to
FittedColumns == {field_mapping[x] : x \in FrontendKeys}

\* The step at which the try block ends. reindex(columns=None) leaves the
\* frame as it is, and self.scaler.transform raises when the scaler is None
\* (AttributeError) or when the frame's columns are not the fitted ones
\* (ValueError).
InvocationEnd(sc, names, processed, outcome) ==
    IF outcome.failed_at = "reindex" THEN "reindex"
    ELSE IF sc = NotLoaded THEN "scale"
    ELSE IF names = NotLoaded /\ DOMAIN processed # FittedColumns THEN "scale"
    ELSE outcome.failed_at

\* the rule with the threshold itself counted as healthy
rule_based_is_healthy_inclusive(risk_scores) == risk_scores.total_risk <= 5000

\* is_healthy = risk_scores['total_risk'] < 50
rule_based_is_healthy(risk_scores) == risk_scores.total_risk < 5000

\* the returned dict with the rule-based classification (confidence 0.75)
RuleBased(risk_scores, processed) ==
    [raised |-> FALSE, error |-> "",
     is_healthy |-> rule_based_is_healthy(risk_scores),
     confidence |-> 75,
     risk_scores |-> risk_scores,
     processed_data |-> processed]

PredictRaised(what) == [raised |-> TRUE, error |-> what]

\* the handler re-raising instead of falling back
on_model_error_reraise(risk_scores, processed) == PredictRaised("Exception")

\* except Exception: fall back to the rule-based prediction
on_model_error(risk_scores, processed) == RuleBased(risk_scores, processed)

\* predict(user_data) on a predictor with the given attributes
predict_return(mdl, sc, encoders, names, ud, outcome) ==
    LET processed == preprocess_input(encoders, ud)
        risk_scores == calculate_risk_scores(processed, ContextOf(ud))
    IN IF risk_scores.raised THEN PredictRaised(risk_scores.error)
       ELSE IF mdl # NotLoaded THEN
            (IF InvocationEnd(sc, names, processed, outcome) = "none"
             THEN [raised |-> FALSE, error |-> "",
                   is_healthy |-> (outcome.prediction = 1),
                   confidence |-> outcome.probability,
                   risk_scores |-> risk_scores,
                   processed_data |-> processed]
             ELSE on_model_error(risk_scores, processed))
       ELSE RuleBased(risk_scores, processed)

ScaleFrontendKeys == {"sleepQuality", "stress", "anxious", "eyeStrain"}

\* str(n) for the answers of a 1-5 scale
NumericString(v) ==
    V_str(CASE v.n = 1 -> "1" [] v.n = 2 -> "2" [] v.n = 3 -> "3"
            [] v.n = 4 -> "4" [] v.n = 5 -> "5" [] OTHER -> "0")

\* A request arrives: a reference survey, as it is, with one 1-5 scale
\* answer sent as a numeric string, or with one 1-5 scale answer left out
Receive(ud) ==
    /\ load_pc # "start"
    /\ op # "request"
    /\ user_data' = ud
    /\ op' = "request"
    /\ processed_data' = EmptyDict
    /\ user_context' = NoContext
    /\ invocation' = "none"
    /\ ret' = NoReturn
    /\ recommendations' = NotGenerated
    /\ UNCHANGED <<model, scaler, label_encoders, feature_names, load_pc>>
    /\ UNCHANGED <<prediction_in, earlier, calls>>
    /\ UNCHANGED dbVars

ReceiveSurvey == \E s \in SurveyProfiles : Receive(s)

ReceiveNumericString ==
    \E s \in SurveyProfiles :
        \E x \in ScaleFrontendKeys \cap DOMAIN s :
            Receive(Put(s, x, NumericString(s[x])))

ReceiveWithoutAnswer ==
    \E s \in SurveyProfiles :
        \E x \in ScaleFrontendKeys \cap DOMAIN s :
            Receive(Del(s, x))

\* how far predict got with the classifier: "not reached" when there is no
\* model or calculate_risk_scores raised, else the step that ended the try
\* block
predict_invocation(mdl, sc, encoders, names, ud, outcome) ==
    LET processed == preprocess_input(encoders, ud)
    IN IF mdl # NotLoaded /\ ~calculate_risk_scores(processed, ContextOf(ud)).raised
       THEN InvocationEnd(sc, names, processed, outcome)
       ELSE "not reached"

\* prediction = predictor.predict(user_data)
predict ==
    /\ op = "request"
    /\ \E outcome \in ClassifierOutcomes :
        /\ ret' = predict_return(model, scaler, label_encoders, feature_names,
                                 user_data, outcome)
        /\ invocation' = predict_invocation(model, scaler, label_encoders,
                                            feature_names, user_data, outcome)
    /\ processed_data' = preprocess_input(label_encoders, user_data)
    /\ user_context' = ContextOf(user_data)
    /\ op' = "predict"
    /\ UNCHANGED <<model, scaler, label_encoders, feature_names, load_pc, user_data>>
    /\ UNCHANGED engineVars
    /\ UNCHANGED dbVars

\* recommendations = RecommendationEngine.generate_recommendations(
\*     prediction, user_data), reached when predict returned
recommend ==
    /\ op = "predict"
    /\ ~ret.raised
    /\ recommendations' = generate_recommendations(recommendations.lists, ret, user_data)
    /\ op' = "generate_recommendations"
    /\ UNCHANGED <<model, scaler, label_encoders, feature_names, load_pc, user_data,
                   processed_data, user_context, invocation, ret>>
    /\ UNCHANGED <<prediction_in, earlier, calls>>
    /\ UNCHANGED dbVars

Next ==
    \/ load_models
    \/ ReceiveSurvey
    \/ ReceiveNumericString
    \/ ReceiveWithoutAnswer
    \/ predict
    \/ recommend

Spec == Init /\ [][Next]_vars

Returned == op = "predict" /\ ~ret.raised

\* C5 (as claimed): predict returns and never raises, also when a 1-5
\* scale answer is sent as a numeric string.
C5_PredictNeverRaises == op = "predict" => ~ret.raised

\* C6: with no classifier loaded, every prediction that predict returns has
\* confidence 0.75 and is_healthy = (total_risk < 50) for the total_risk in
\* its risk_scores.
C6_FallbackWithoutModel ==
    (Returned /\ model = NotLoaded) =>
        /\ ret.confidence = 75
        /\ ret.is_healthy = (ret.risk_scores.total_risk < 5000)

\* C6 witness: no classifier loaded and a survey whose total_risk is exactly
\* 50, returned as not healthy with confidence 0.75.
C6_Witness ==
    /\ Returned
    /\ model = NotLoaded
    /\ ret.risk_scores.total_risk = 5000
    /\ ~ret.is_healthy
    /\ ret.confidence = 75

\* C7 (as claimed): once a load of load_models failed, every prediction
\* that predict returns is the rule-based one (is_healthy = total_risk < 50,
\* confidence 0.75), whichever artifact failed to load.
C7_FailedLoadMeansRuleBased ==
    (Returned /\ load_pc = "failed") =>
        /\ ret.confidence = 75
        /\ ret.is_healthy = (ret.risk_scores.total_risk < 5000)

\* C8: when a classifier is loaded and its invocation fails at any step,
\* predict does not raise and returns the rule-based classification with
\* confidence 0.75, with the risk_scores and processed_data that the call
\* without a classifier returns.
C8_InvocationFailureFallsBack ==
    (op = "predict" /\ model = Loaded /\ invocation \in InvocationSteps) =>
        /\ ~ret.raised
        /\ ret.confidence = 75
        /\ ret.is_healthy = (ret.risk_scores.total_risk < 5000)
        /\ ret = predict_return(NotLoaded, scaler, label_encoders, feature_names,
                                user_data, CHOOSE o \in ClassifierOutcomes : TRUE)

\* C8 witness: every artifact loaded, the invocation failed at its last
\* step (predict_proba), and predict returned the fallback for a survey with
\* total_risk of 50 or more.
C8_Witness ==
    /\ op = "predict"
    /\ load_pc = "loaded"
    /\ invocation = "predict_proba"
    /\ ~ret.raised
    /\ ~ret.is_healthy
    /\ ret.confidence = 75

----------------------------------------------------------------------------
(* SpecRec: generate_recommendations applied to predictions and surveys *)

\* the two generate_recommendations of the repository
Engines == {"generate_recommendations", "category_generate_recommendations"}

\* what a client can answer to each question that generate_recommendations
\* reads: the labels of the form, a hyphen form, a string of no vocabulary,
\* and for a 1-5 scale an int, a numeric string, a word or null
SurveyAnswers(x) ==
    CASE x \in {"totalScreenTime", "socialMedia", "entertainment", "workTime"} ->
            {V_str(l) : l \in {"Less than 1 hour", "1--2 hours", "3--4 hours",
                               "5--6 hours", "More than 6 hours", "5-6 hours"}}
      [] x = "screenBeforeSleep" ->
            {V_str(l) : l \in {"Never", "Rarely", "Sometimes", "Often", "Always"}}
      [] x = "exercise" ->
            {V_str(l) : l \in {"Never", "1--2 days per week", "3--4 days per week",
                               "Daily", "Weekly"}}
      [] x = "addicted" -> {V_str(l) : l \in {"No", "Not sure", "Maybe", "Yes", "yes"}}
      [] x \in ScaleFrontendKeys ->
            {V_int(i) : i \in 1..5} \cup {V_str("4"), V_str("high"), V_none}
      [] x = "occupation" ->
            {V_str(l) : l \in {"Student", "Employed", "Unemployed", "Retired", ""}}
      [] x = "field" -> {V_str(l) : l \in {"IT", "Non-IT", ""}}
      [] x = "ageGroup" ->
            {V_str(l) : l \in {"18--24", "25--34", "35--44", "45--54", "55+", ""}}

SurveyKeys ==
    {"totalScreenTime", "socialMedia", "entertainment", "workTime",
     "screenBeforeSleep", "exercise", "addicted", "sleepQuality", "stress",
     "anxious", "eyeStrain", "occupation", "field", "ageGroup"}

\* total_risk values on and around the thresholds 50, 60 and 70, in hundredths
RiskLevels == {0, 4990, 5000, 5010, 6000, 6010, 7000, 7010, 11880}

\* the predictions a caller can pass: without risk_scores, with risk_scores
\* that hold no total_risk, and with a total_risk
Predictions ==
    {EmptyDict, [risk_scores |-> EmptyDict]}
    \cup {[risk_scores |-> [total_risk |-> t]] : t \in RiskLevels}

\* the prediction predict returns for a survey when no classifier is loaded
RuleBasedPrediction(ud) ==
    predict_return(NotLoaded, NotLoaded, NoEncoders, NotLoaded, ud,
                   CHOOSE o \in ClassifierOutcomes : TRUE)

\* the reference inputs: each reference survey with its own prediction
RecProfiles == {<<RuleBasedPrediction(s), s>> : s \in SurveyProfiles}

\* the number of edits between an input and a reference input: the answers
\* that differ, and one more when the prediction differs
RecDistance(pred, ud, p) ==
    DictDistance(ud, p[2]) + (IF pred = p[1] THEN 0 ELSE 1)

\* the input is within MaxEdits of a reference input and one edit further
\* from it than the input of the last call
OneEditFurther(pred, ud) ==
    \E p \in RecProfiles :
        /\ RecDistance(pred, ud, p) <= MaxEdits
        /\ RecDistance(pred, ud, p) = RecDistance(prediction_in, user_data, p) + 1

\* the call of one of the two functions
Generated(engine, previous, pred, ud) ==
    IF engine = "generate_recommendations"
    THEN generate_recommendations(previous, pred, ud)
    ELSE category_generate_recommendations(pred, ud)

InitRec ==
    /\ PredictorFresh
    /\ load_pc = "failed"
    /\ \E p \in RecProfiles :
        /\ prediction_in = p[1]
        /\ user_data = p[2]
    /\ processed_data = EmptyDict
    /\ user_context = NoContext
    /\ op = "none"
    /\ invocation = "none"
    /\ ret = NoReturn
    /\ recommendations = NotGenerated
    /\ earlier = NoEarlier
    /\ calls = NoCalls
    /\ DbIdle

\* recommendations = generate_recommendations(pred, ud)
Generate(engine, pred, ud) ==
    /\ prediction_in' = pred
    /\ user_data' = ud
    /\ recommendations' = Generated(engine, recommendations.lists, pred, ud)
    /\ op' = engine
    /\ UNCHANGED <<model, scaler, label_encoders, feature_names, load_pc,
                   processed_data, user_context, invocation, ret, calls>>
    /\ UNCHANGED dbVars

\* the first call after start-up, by either function
GenerateFirst ==
    /\ op = "none"
    /\ \E e \in Engines : Generate(e, prediction_in, user_data)
    /\ UNCHANGED earlier

\* a further edit of the last call's input stays within MaxEdits of some
\* reference input
CanEdit ==
    /\ op \in Engines
    /\ \E p \in RecProfiles : RecDistance(prediction_in, user_data, p) < MaxEdits

GenerateNear(pred, ud) ==
    /\ OneEditFurther(pred, ud)
    /\ Generate(op, pred, ud)
    /\ UNCHANGED earlier

GenerateWithAnswer ==
    /\ CanEdit
    /\ \E x \in SurveyKeys :
        \E v \in SurveyAnswers(x) :
            GenerateNear(prediction_in, Put(user_data, x, v))

GenerateWithoutAnswer ==
    /\ CanEdit
    /\ \E x \in DOMAIN user_data :
        GenerateNear(prediction_in, Del(user_data, x))

GenerateWithPrediction ==
    /\ CanEdit
    /\ \E p \in Predictions : GenerateNear(p, user_data)

NextRec ==
    \/ GenerateFirst
    \/ GenerateWithAnswer
    \/ GenerateWithoutAnswer
    \/ GenerateWithPrediction

SpecRec == InitRec /\ [][NextRec]_vars

\* a generate_recommendations call returned
Recommended == op \in Engines /\ ~recommendations.raised

----------------------------------------------------------------------------
(* Claims about generate_recommendations, checked under SpecRec *)

\* the category keys each of the two functions declares
Taxonomy(engine) ==
    IF engine = "generate_recommendations" THEN Categories ELSE CategoryCategories

\* C11 (as claimed): generate_recommendations returns a mapping with every
\* category key of its taxonomy, and no category list in it is empty.
C11_EveryCategoryNonEmpty ==
    Recommended =>
        /\ DOMAIN recommendations.lists = Taxonomy(op)
        /\ \A c \in Taxonomy(op) : recommendations.lists[c] # <<>>

\* C12 (as claimed): generate_recommendations returns and never raises,
\* also when a 1-5 scale answer is a non-numeric string or null.
C12_GenerateNeverRaises == op \in Engines => ~recommendations.raised

CriticalAdvisory(n) ==
    F("CRITICAL RISK ({}/100) - Seek professional help immediately!", <<V_int(n)>>)

HighAdvisory(n) ==
    F("HIGH RISK ({}/100) - Immediate intervention needed, get support NOW", <<V_int(n)>>)

ElevatedAdvisory(n) ==
    F("ELEVATED RISK ({}/100) - Take action this week, start with accountability partner", <<V_int(n)>>)

\* every risk-tier advisory, whatever the score it shows
RiskTierAdvisories ==
    UNION {{CriticalAdvisory(n), HighAdvisory(n), ElevatedAdvisory(n)} : n \in 0..200}

\* C13: in the parental_controls list that generate_recommendations of
\* app.py returns, when total_risk > 50 exactly one risk-tier advisory is
\* present and it is at index 0: the critical one above 70, the high one
\* above 60 and up to 70, the elevated one above 50 and up to 60; when
\* total_risk <= 50 no risk-tier advisory is present.
C13_OneRiskTierAdvisoryFirst ==
    (op = "generate_recommendations" /\ ~recommendations.raised) =>
        LET total_risk == RiskOf(prediction_in)
            list == recommendations.lists["parental_controls"]
            tiers == {i \in 1..Len(list) : list[i] \in RiskTierAdvisories}
        IN IF total_risk > 7000
           THEN tiers = {1} /\ list[1] = CriticalAdvisory(total_risk \div 100)
           ELSE IF total_risk > 6000
           THEN tiers = {1} /\ list[1] = HighAdvisory(total_risk \div 100)
           ELSE IF total_risk > 5000
           THEN tiers = {1} /\ list[1] = ElevatedAdvisory(total_risk \div 100)
           ELSE tiers = {}

\* C13 witness: a call with total_risk above 70 for an IT worker who feels
\* addicted, where the IT addiction paradox was inserted at index 0 earlier
\* in the call and the critical advisory now stands before it.
C13_Witness ==
    /\ op = "generate_recommendations"
    /\ ~recommendations.raised
    /\ RiskOf(prediction_in) > 7000
    /\ Len(recommendations.lists["parental_controls"]) >= 2
    /\ recommendations.lists["parental_controls"][1]
          = CriticalAdvisory(RiskOf(prediction_in) \div 100)
    /\ recommendations.lists["parental_controls"][2]
          = A("IT ADDICTION PARADOX: You need screens for work but feel addicted - separate work and personal usage completely")

----------------------------------------------------------------------------
(* Repeated calls of generate_recommendations: a call, any other calls,    *)
(* and the first call again                                                 *)

\* the inputs of the calls: the reference inputs and one survey whose
\* stress answer makes the call raise
RepeatInputs ==
    RecProfiles \cup {<<EmptyDict, DictOf({<<"stress", V_str("high")>>})>>}

InitRepeat ==
    /\ PredictorFresh
    /\ load_pc = "failed"
    /\ \E p \in RepeatInputs :
        /\ prediction_in = p[1]
        /\ user_data = p[2]
    /\ processed_data = EmptyDict
    /\ user_context = NoContext
    /\ op = "none"
    /\ invocation = "none"
    /\ ret = NoReturn
    /\ recommendations = NotGenerated
    /\ earlier = NoEarlier
    /\ calls = NoCalls
    /\ DbIdle

\* the first call; its arguments and what it returned are kept aside for
\* the comparison
GenerateOnce ==
    /\ op = "none"
    /\ \E e \in Engines :
        /\ Generate(e, prediction_in, user_data)
        /\ earlier' = [called |-> TRUE, engine |-> e,
                       prediction |-> prediction_in, user_data |-> user_data,
                       result |-> Generated(e, recommendations.lists,
                                            prediction_in, user_data),
                       between |-> FALSE]

\* another call, of either function, whose arguments differ from the first
\* call's
GenerateOther ==
    /\ earlier.called
    /\ \E e \in Engines :
        \E p \in RepeatInputs :
            /\ <<e, p[1], p[2]>> # <<earlier.engine, earlier.prediction, earlier.user_data>>
            /\ Generate(e, p[1], p[2])
    /\ earlier' = [earlier EXCEPT !.between = TRUE]

\* the first call again, with equal arguments
GenerateSame ==
    /\ earlier.called
    /\ Generate(earlier.engine, earlier.prediction, earlier.user_data)
    /\ UNCHANGED earlier

NextRepeat ==
    \/ GenerateOnce
    \/ GenerateOther
    \/ GenerateSame

SpecRepeat == InitRepeat /\ [][NextRepeat]_vars

\* the last call had the arguments of the first call
SameAsEarlier ==
    /\ earlier.called
    /\ op = earlier.engine
    /\ prediction_in = earlier.prediction
    /\ user_data = earlier.user_data

\* C14: a call of generate_recommendations with arguments equal to those of
\* an earlier call returns lists equal to the earlier call's, entry by entry
\* and in the same order, whatever other calls were made in between: nothing
\* is carried over from one call to the next.
C14_EqualInputsEqualLists ==
    SameAsEarlier => recommendations = earlier.result

\* C14 witness: the first call returned advisories, calls with other
\* arguments followed, and the first call was made again and returned.
C14_Witness ==
    /\ SameAsEarlier
    /\ earlier.between
    /\ op = "generate_recommendations"
    /\ ~recommendations.raised
    /\ Len(recommendations.lists["parental_controls"]) >= 2
    /\ Len(recommendations.lists["meditation_exercises"]) >= 2

----------------------------------------------------------------------------
(* SpecConc: requests handled at the same time by the one predictor        *)
(* (predictor = ScreenTimePredictor(), line 254): each request runs        *)
(* predict and then generate_recommendations, and the steps of the         *)
(* requests interleave                                                      *)

\* the requests in progress at the same time
Requests == {"r1", "r2"}

\* the surveys they carry
ConcSurveys == {SurveyScenario1, SurveyScenario2, SurveyBorderline}

\* the classifier was not invoked
NoOutcome == [failed_at |-> "not reached", prediction |-> 0, probability |-> 0]

\* the locals of a request that has not started
IdleFrame ==
    [pc |-> "idle", user_data |-> EmptyDict, processed_data |-> EmptyDict,
     risk_scores |-> NoReturn, outcome |-> NoOutcome, prediction |-> NoReturn,
     recommendations |-> NotGenerated]

\* processed_data kept in one place for all calls
processed_data_shared(cs, c) == cs[CHOOSE d \in DOMAIN cs : TRUE].processed_data

\* processed_data as the call c of predict holds it: a local of the call
processed_data_of(cs, c) == cs[c].processed_data

\* lines 220-251 of predict: the classification from the locals
\* processed_data and risk_scores and the predictor's attributes
classify_return(mdl, sc, names, processed, risk_scores, outcome) ==
    IF mdl # NotLoaded THEN
        (IF InvocationEnd(sc, names, processed, outcome) = "none"
         THEN [raised |-> FALSE, error |-> "",
               is_healthy |-> (outcome.prediction = 1),
               confidence |-> outcome.probability,
               risk_scores |-> risk_scores,
               processed_data |-> processed]
         ELSE on_model_error(risk_scores, processed))
    ELSE RuleBased(risk_scores, processed)

InitConc ==
    /\ PredictorFresh
    /\ load_pc = "start"
    /\ user_data = EmptyDict
    /\ processed_data = EmptyDict
    /\ user_context = NoContext
    /\ op = "none"
    /\ invocation = "none"
    /\ ret = NoReturn
    /\ prediction_in = EmptyDict
    /\ recommendations = NotGenerated
    /\ earlier = NoEarlier
    /\ calls = [c \in Requests |-> IdleFrame]
    /\ DbIdle

\* what no step of a request touches
ConcUnchanged ==
    UNCHANGED <<user_data, processed_data, user_context, op, invocation, ret,
                prediction_in, earlier, db, saves>>

\* predictor = ScreenTimePredictor(): the start-up loading, before the
\* server takes requests
ConcLoad ==
    /\ load_models
    /\ UNCHANGED calls

\* a request arrives with its survey
ConcArrive(c) ==
    /\ load_pc # "start"
    /\ calls[c].pc = "idle"
    /\ \E s \in ConcSurveys :
        calls' = [calls EXCEPT ![c] = [@ EXCEPT !.pc = "preprocess_input",
                                                !.user_data = s]]
    /\ UNCHANGED <<model, scaler, label_encoders, feature_names, load_pc,
                   recommendations>>
    /\ ConcUnchanged

\* processed_data = self.preprocess_input(user_data)
ConcPreprocess(c) ==
    /\ calls[c].pc = "preprocess_input"
    /\ calls' = [calls EXCEPT ![c] =
                    [@ EXCEPT !.pc = "calculate_risk_scores",
                              !.processed_data =
                                  preprocess_input(label_encoders, calls[c].user_data)]]
    /\ UNCHANGED <<model, scaler, label_encoders, feature_names, load_pc,
                   recommendations>>
    /\ ConcUnchanged

\* risk_scores = self.calculate_risk_scores(processed_data, user_context)
ConcScore(c) ==
    /\ calls[c].pc = "calculate_risk_scores"
    /\ LET risk_scores == calculate_risk_scores(processed_data_of(calls, c),
                                                ContextOf(calls[c].user_data))
       IN calls' = [calls EXCEPT ![c] =
                    IF risk_scores.raised
                    THEN [@ EXCEPT !.pc = "done",
                                   !.risk_scores = risk_scores,
                                   !.prediction = PredictRaised(risk_scores.error)]
                    ELSE [@ EXCEPT !.pc = "classify",
                                   !.risk_scores = risk_scores]]
    /\ UNCHANGED <<model, scaler, label_encoders, feature_names, load_pc,
                   recommendations>>
    /\ ConcUnchanged

\* the classifier invocation or the rule, and predict's return
ConcClassify(c) ==
    /\ calls[c].pc = "classify"
    /\ \E outcome \in ClassifierOutcomes :
        calls' = [calls EXCEPT ![c] =
                    [@ EXCEPT !.pc = "generate_recommendations",
                              !.outcome = outcome,
                              !.prediction =
                                  classify_return(model, scaler, feature_names,
                                                  processed_data_of(calls, c),
                                                  calls[c].risk_scores, outcome)]]
    /\ UNCHANGED <<model, scaler, label_encoders, feature_names, load_pc,
                   recommendations>>
    /\ ConcUnchanged

\* recommendations = RecommendationEngine.generate_recommendations(
\*     prediction, user_data), after whatever call returned last
ConcRecommend(c) ==
    /\ calls[c].pc = "generate_recommendations"
    /\ LET r == generate_recommendations(recommendations.lists,
                                         calls[c].prediction, calls[c].user_data)
       IN /\ calls' = [calls EXCEPT ![c] = [@ EXCEPT !.pc = "done",
                                                     !.recommendations = r]]
          /\ recommendations' = r
    /\ UNCHANGED <<model, scaler, label_encoders, feature_names, load_pc>>
    /\ ConcUnchanged

NextConc ==
    \/ ConcLoad
    \/ \E c \in Requests : ConcArrive(c)
    \/ \E c \in Requests : ConcPreprocess(c)
    \/ \E c \in Requests : ConcScore(c)
    \/ \E c \in Requests : ConcClassify(c)
    \/ \E c \in Requests : ConcRecommend(c)

SpecConc == InitConc /\ [][NextConc]_vars

\* the request c went through predict and generate_recommendations
ConcDone(c) == calls[c].pc = "done"

\* what the request c gets when its two calls run with no other request:
\* predict's return and the recommendations made from it
AlonePrediction(c) ==
    predict_return(model, scaler, label_encoders, feature_names,
                   calls[c].user_data, calls[c].outcome)

AloneRecommendations(c) ==
    IF AlonePrediction(c).raised THEN NotGenerated
    ELSE generate_recommendations(NoLists, AlonePrediction(c), calls[c].user_data)

\* C15: when predict and generate_recommendations calls of several requests
\* interleave on the one shared predictor, each call returns what it
\* returns when run alone, and once the start-up loading is over no step
\* changes model, scaler, label_encoders or feature_names.
C15_InterleavedAsAlone ==
    /\ [](\A c \in Requests :
            ConcDone(c) =>
                /\ calls[c].prediction = AlonePrediction(c)
                /\ calls[c].recommendations = AloneRecommendations(c))
    /\ [][load_pc # "start" =>
            UNCHANGED <<model, scaler, label_encoders, feature_names>>]_vars

\* C15 witness: with all four artifacts loaded, two requests carrying
\* different surveys both finished, one classified by the model and one by
\* the fallback after the invocation raised.
C15_Witness ==
    /\ load_pc = "loaded"
    /\ ConcDone("r1")
    /\ ConcDone("r2")
    /\ calls["r1"].user_data # calls["r2"].user_data
    /\ calls["r1"].outcome.failed_at = "none"
    /\ calls["r2"].outcome.failed_at # "none"
    /\ calls["r1"].recommendations.lists["parental_controls"]
          # calls["r2"].recommendations.lists["parental_controls"]

----------------------------------------------------------------------------
(* The end-to-end scenarios: a survey through predict and                  *)
(* generate_recommendations with no classifier loaded, checked under Spec  *)

\* the request with survey s went through predict's rule-based path and
\* generate_recommendations
ScenarioDone(s) ==
    /\ op = "generate_recommendations"
    /\ model = NotLoaded
    /\ user_data = s
    /\ ~ret.raised
    /\ ~recommendations.raised

SevereEyeStrainAdvisory(n) ==
    F("SEVERE eye strain ({}/5) - Take immediate breaks, use eye drops, reduce brightness", <<V_int(n)>>)

\* C16: for the survey of scenario 1 with no classifier loaded, total_risk
\* is above 70, is_healthy is false, the first entry of parental_controls
\* is the critical risk advisory and the first entry of
\* meditation_exercises is the severe eye-strain advisory.
C16_Scenario1 ==
    ScenarioDone(SurveyScenario1) =>
        /\ ret.risk_scores.total_risk > 7000
        /\ ret.is_healthy = FALSE
        /\ recommendations.lists["parental_controls"] # <<>>
        /\ recommendations.lists["parental_controls"][1]
              = CriticalAdvisory(ret.risk_scores.total_risk \div 100)
        /\ recommendations.lists["meditation_exercises"] # <<>>
        /\ recommendations.lists["meditation_exercises"][1]
              = SevereEyeStrainAdvisory(SurveyScenario1["eyeStrain"].n)

\* C16 witness: scenario 1 went through both calls; its total_risk is 86.
C16_Witness ==
    /\ ScenarioDone(SurveyScenario1)
    /\ ret.risk_scores.total_risk = 8600
    /\ Len(recommendations.lists["parental_controls"]) >= 2
    /\ Len(recommendations.lists["meditation_exercises"]) >= 2

\* the values of a feature of a fully answered, in-range survey
InRangeValues(b) ==
    IF b \in OrdinalKeys THEN FeatureValues(b) ELSE {V_int(i) : i \in 1..5}

\* every in-range mapping over a group of features
InRangeMappings(keys) ==
    {pd \in [keys -> UNION {InRangeValues(b) : b \in keys}] :
        \A b \in keys : pd[b] \in InRangeValues(b)}

\* every context a survey can give
AllContexts ==
    {Context([x \in {"occupation", "field", "ageGroup"} |->
                IF x = "occupation" THEN o ELSE IF x = "field" THEN f ELSE V_str("")]) :
        o \in ContextValues("occupation"), f \in ContextValues("field")}

Least(S) == CHOOSE m \in S : \A x \in S : m <= x

\* The least total_risk over all fully answered in-range surveys and all
\* contexts. total_risk is the floored sum of terms over disjoint groups of
\* answers (the hours with the context, the sleep answers, the behavioural
\* answers, exercise), so its least value is the floor of the sum of the
\* least values of the terms.
LeastTotalRisk ==
    LET hours == {"Average total screen time per day", "Social Media (hours)",
                  "Entertainment (hours)", "Work/Education (hours)"}
        sleep == {"Average sleep duration (hours)", "Sleep quality (1--5)",
                  "Use screen before sleep"}
        behavioral == {"Stress due to screen usage", "Anxious without device",
                       "Eye strain or headache", "Feel addicted to devices"}
        exercise == {"Exercise frequency"}
    IN total_risk_floor(
          Least({total_risk_sum(screen_time_score_of(pd).n, 0, 0, 0,
                                contextual_adjustment_of(pd, ctx)) :
                    pd \in InRangeMappings(hours), ctx \in AllContexts})
          + Least({total_risk_sum(0, sleep_risk_of(pd).n, 0, 0, 0) :
                    pd \in InRangeMappings(sleep)})
          + Least({total_risk_sum(0, 0, behavioral_risk_of(pd).n, 0, 0) :
                    pd \in InRangeMappings(behavioral)})
          + Least({total_risk_sum(0, 0, 0, exercise_benefit_of(pd).n, 0) :
                    pd \in InRangeMappings(exercise)}))

\* C17: for the survey of scenario 2 with no classifier loaded, total_risk
\* is the least total_risk of any fully answered in-range survey,
\* is_healthy is true, and the first entry of general_wellness_tips is the
\* first entry of the "outstanding" block.
C17_Scenario2 ==
    ScenarioDone(SurveyScenario2) =>
        /\ ret.risk_scores.total_risk = LeastTotalRisk
        /\ ret.is_healthy = TRUE
        /\ recommendations.lists["general_wellness_tips"] # <<>>
        /\ recommendations.lists["general_wellness_tips"][1]
              = A("Outstanding! Your screen time is exceptionally healthy")

\* C17 witness: scenario 2 went through both calls; its total_risk is 5,
\* the behavioural answers at their lowest value 1.
C17_Witness ==
    /\ ScenarioDone(SurveyScenario2)
    /\ ret.risk_scores.total_risk = 500
    /\ ret.risk_scores.behavioral_risk = 5
    /\ Len(recommendations.lists["general_wellness_tips"]) = 4

----------------------------------------------------------------------------
(* The scoring formula and the contextual adjustments, checked under       *)
(* SpecScore                                                                *)

\* every scoring feature is given and the 1-5 scale answers are in 1..5
\* (the ordinal features are in range by construction)
FullInRange ==
    /\ DOMAIN processed_data = OrdinalKeys \cup ScaleKeys
    /\ InValidRanges

\* the value of a scoring feature of the scored mapping
Feature(b) == processed_data[b].n

Clamp(x, lo, hi) == Min(hi, Max(lo, x))

\* C18: for a normalized feature mapping with every value in range and any
\* user context, calculate_risk_scores returns
\*   screen_time_score = 5*screen + 3*social + 2*entertainment + work,
\*   sleep_risk = 3*(4 - duration) + 2*(5 - quality) + 2*before_sleep,
\*   behavioral_risk = 2*stress + 2*anxious + eye_strain + 2*addiction,
\*   total_risk = max(0, the three + 2*(3 - exercise) + contextual_adjustment),
\*   screen_index = clamp(1.5 * total_risk, 0, 100),
\*   sleep_health = clamp(100 - 3*sleep_risk, 0, 100),
\*   wellbeing_score = clamp(100 - 2.5*behavioral_risk, 0, 100)
\* (the scores that can be fractional are in hundredths).
C18_ScoringFormula ==
    (Scored /\ FullInRange) =>
        LET screen == 5 * Feature("Average total screen time per day")
                      + 3 * Feature("Social Media (hours)")
                      + 2 * Feature("Entertainment (hours)")
                      + Feature("Work/Education (hours)")
            sleep == 3 * (4 - Feature("Average sleep duration (hours)"))
                     + 2 * (5 - Feature("Sleep quality (1--5)"))
                     + 2 * Feature("Use screen before sleep")
            behavioral == 2 * Feature("Stress due to screen usage")
                          + 2 * Feature("Anxious without device")
                          + Feature("Eye strain or headache")
                          + 2 * Feature("Feel addicted to devices")
            exercise == 2 * (3 - Feature("Exercise frequency"))
        IN /\ ret.screen_time_score = screen
           /\ ret.sleep_risk = sleep
           /\ ret.behavioral_risk = behavioral
           /\ ret.total_risk =
                Max(0, 100 * (screen + sleep + behavioral + exercise)
                       + ret.contextual_adjustment)
           /\ ret.screen_index * 10 = Clamp(15 * ret.total_risk, 0, 100000)
           /\ ret.sleep_health = Clamp(10000 - 300 * sleep, 0, 10000)
           /\ ret.wellbeing_score = Clamp(10000 - 250 * behavioral, 0, 10000)

\* C18 witness: a fully given in-range mapping scored with a context that
\* adjusts the sum, whose indices are all strictly inside 0..100.
C18_Witness ==
    /\ Scored
    /\ FullInRange
    /\ ret.contextual_adjustment # 0
    /\ Feature("Eye strain or headache") > 1
    /\ ret.screen_index > 0 /\ ret.screen_index < 10000
    /\ ret.sleep_health > 0 /\ ret.sleep_health < 10000
    /\ ret.wellbeing_score > 0 /\ ret.wellbeing_score < 10000

\* a context was given and the scored mapping holds the hours features
ScoredInContext ==
    /\ Scored
    /\ Truthy(user_context)
    /\ {"Work/Education (hours)", "Social Media (hours)", "Entertainment (hours)"}
          \subseteq DOMAIN processed_data

ContextField == Get(user_context.d, "field", V_str(""))

ContextOccupation == Get(user_context.d, "occupation", V_str(""))

\* the recreational penalties of an IT worker, in hundredths
RecreationalTerms ==
    (IF Feature("Social Media (hours)") >= 2
     THEN 150 * Feature("Social Media (hours)") ELSE 0)
    + (IF Feature("Entertainment (hours)") >= 2
       THEN 120 * Feature("Entertainment (hours)") ELSE 0)

\* C19 (as claimed): with field = IT, contextual_adjustment includes the
\* term -0.5 * work when the work ordinal is >= 2 (the 3-4 hours bracket or
\* above), and no work term when it is < 2.
C19_ITWorkTermFromOrdinalTwo ==
    (ScoredInContext /\ ContextField = V_str("IT")) =>
        ret.contextual_adjustment - RecreationalTerms
            = (IF Feature("Work/Education (hours)") >= 2
               THEN 0 - 50 * Feature("Work/Education (hours)")
               ELSE 0)

\* the terms the rules for field = IT contribute, as the code computes them
ITTerms ==
    IF ContextField = V_str("IT")
    THEN (IF Feature("Work/Education (hours)") >= 4
          THEN 0 - 50 * Feature("Work/Education (hours)") ELSE 0)
         + RecreationalTerms
    ELSE 0

\* C20 (as claimed): with occupation = Student and the work ordinal at the
\* threshold (4, the value the code compares with), contextual_adjustment
\* includes the term +0.3 * work whatever the field, field = IT included.
C20_StudentTermForEveryField ==
    (/\ ScoredInContext
     /\ ContextOccupation = V_str("Student")
     /\ Feature("Work/Education (hours)") >= 4) =>
        ret.contextual_adjustment - ITTerms
            = 30 * Feature("Work/Education (hours)")

\* the hours ordinals of the scored mapping, 0 when not given
WorkOrdinal == Get(processed_data, "Work/Education (hours)", V_int(0)).n

SocialOrdinal == Get(processed_data, "Social Media (hours)", V_int(0)).n

EntertainmentOrdinal == Get(processed_data, "Entertainment (hours)", V_int(0)).n

\* the context is absent or empty, or gives neither field nor occupation
NoFieldNoOccupation ==
    \/ ~Truthy(user_context)
    \/ (ContextField = V_str("") /\ ContextOccupation = V_str(""))

\* C21 (as claimed): contextual_adjustment is 0 whenever the context is
\* absent, gives neither field nor occupation, or the work ordinal is below
\* the work threshold (below 2, which is below the threshold in the
\* specification's table and in the code); social-media and entertainment
\* ordinals alone never make it non-zero.
C21_ZeroBelowWorkThreshold ==
    (Scored /\ (NoFieldNoOccupation \/ WorkOrdinal < 2)) =>
        ret.contextual_adjustment = 0

\* C21 (amended): contextual_adjustment is 0 whenever the context is
\* absent or gives neither field nor occupation, and whenever the field is
\* not IT and the work ordinal is below the work threshold; for field = IT
\* with the work ordinal below the threshold it is the sum of the
\* recreational penalties 1.5 * social (social >= 2) and
\* 1.2 * entertainment (entertainment >= 2), whatever the work ordinal.
C21_ZeroUnlessITRecreation ==
    Scored =>
        /\ NoFieldNoOccupation => ret.contextual_adjustment = 0
        /\ (Truthy(user_context) /\ ContextField # V_str("IT") /\ WorkOrdinal < 2)
              => ret.contextual_adjustment = 0
        /\ (Truthy(user_context) /\ ContextField = V_str("IT") /\ WorkOrdinal < 2)
              => ret.contextual_adjustment
                    = (IF SocialOrdinal >= 2 THEN 150 * SocialOrdinal ELSE 0)
                      + (IF EntertainmentOrdinal >= 2
                         THEN 120 * EntertainmentOrdinal ELSE 0)

\* C21 witness: an IT worker with the work ordinal below the threshold
\* whose social-media ordinal makes the adjustment positive.
C21_Witness ==
    /\ Scored
    /\ Truthy(user_context)
    /\ ContextField = V_str("IT")
    /\ WorkOrdinal < 2
    /\ SocialOrdinal >= 2
    /\ ret.contextual_adjustment >= 150 * SocialOrdinal

----------------------------------------------------------------------------
(* The order and the choice of the advisories of generate_recommendations  *)
(* (src/backend/app.py), checked under SpecRec                             *)

\* generate_recommendations of app.py returned
AppRecommended == op = "generate_recommendations" /\ ~recommendations.raised

\* the answers as the call reads them
Answers == locals_of(user_data)

HighStressAdvisory(n) ==
    F("High stress level ({}/5) detected - Screen breaks are crucial for your mental health", <<V_int(n)>>)

IndustryRealityAdvisory ==
    A("INDUSTRY REALITY: Your profession requires high screen time - we focus on OPTIMIZATION, not reduction")

\* field = IT with workTime '5-6 hours' (en dash) or 'More than 6 hours'
ITHighWork ==
    /\ Answers.field = V_str("IT")
    /\ Answers.work_time \in {V_str("5--6 hours"), V_str("More than 6 hours")}

\* the 0-based index i of a returned list
AtIndex(category, i, item) ==
    /\ Len(recommendations.lists[category]) > i
    /\ recommendations.lists[category][i + 1] = item

\* C22 (as claimed): whenever stress >= 4 the high-stress advisory is at
\* index 1 of the returned general_wellness_tips, for every combination of
\* the other answers.
C22_HighStressAtIndexOne ==
    (AppRecommended /\ Answers.stress_level.n >= 4) =>
        AtIndex("general_wellness_tips", 1, HighStressAdvisory(Answers.stress_level.n))

\* C22 (amended): whenever stress >= 4 the high-stress advisory is at index
\* 1 of the returned general_wellness_tips, except for field = IT with
\* workTime '5-6 hours' or 'More than 6 hours', where the industry advisory
\* inserted later stands at index 0 and the high-stress advisory at index 2.
C22_HighStressAfterIndustryInsert ==
    (AppRecommended /\ Answers.stress_level.n >= 4) =>
        IF ITHighWork
        THEN /\ AtIndex("general_wellness_tips", 0, IndustryRealityAdvisory)
             /\ AtIndex("general_wellness_tips", 2,
                        HighStressAdvisory(Answers.stress_level.n))
        ELSE AtIndex("general_wellness_tips", 1,
                     HighStressAdvisory(Answers.stress_level.n))

\* C22 witness: an IT worker with high work time and stress >= 4, the
\* high-stress advisory at index 2.
C22_Witness ==
    /\ AppRecommended
    /\ Answers.stress_level.n >= 4
    /\ ITHighWork
    /\ AtIndex("general_wellness_tips", 2, HighStressAdvisory(Answers.stress_level.n))

\* the entries of the addiction block of one answer
AddictionBlock(answer) ==
    device_addiction([c \in {"parental_controls"} |-> <<>>],
                     [addicted |-> V_str(answer)])["parental_controls"]

\* the block the addicted answer selects
SelectedAddictionBlock ==
    IF Answers.addicted \in {V_str("Yes"), V_str("Maybe"), V_str("Not sure")}
    THEN AddictionBlock(Answers.addicted.s)
    ELSE AddictionBlock("No")

\* the items of a block stand in the list, together and in order
HoldsBlock(list, block) ==
    \E i \in 0..(Len(list) - Len(block)) :
        \A j \in 1..Len(block) : list[i + j] = block[j]

Entries(list) == {list[i] : i \in 1..Len(list)}

\* C23: for every survey the parental_controls list returned by
\* generate_recommendations (app.py) holds the entries of exactly one of
\* the four addiction blocks, the one of the addicted answer; an absent or
\* unrecognized answer selects the 'No' block.
C23_OneAddictionBlock ==
    AppRecommended =>
        LET list == recommendations.lists["parental_controls"]
        IN /\ HoldsBlock(list, SelectedAddictionBlock)
           /\ \A a \in {"Yes", "Maybe", "Not sure", "No"} :
                AddictionBlock(a) # SelectedAddictionBlock
                    => Entries(AddictionBlock(a)) \cap Entries(list) = {}

\* C23 witness: an unrecognized addicted answer, with the 'No' block and
\* other advisories of the list around it.
C23_Witness ==
    /\ AppRecommended
    /\ "addicted" \in DOMAIN user_data
    /\ Answers.addicted \notin {V_str("Yes"), V_str("Maybe"), V_str("Not sure"), V_str("No")}
    /\ HoldsBlock(recommendations.lists["parental_controls"], AddictionBlock("No"))
    /\ Len(recommendations.lists["parental_controls"]) > Len(AddictionBlock("No"))

\* the label of the form for the bracket of ordinal k
BracketLabel(k) ==
    <<"Less than 1 hour", "1--2 hours", "3--4 hours", "5--6 hours",
      "More than 6 hours">>[k + 1]

\* the block of the totalScreenTime ladder of app.py for a label
ScreenTimeBlock(label) ==
    wellness_tips([c \in {"general_wellness_tips"} |-> <<>>],
                  [total_screen |-> V_str(label), stress_level |-> V_int(1),
                   sleep_before_screen |-> V_str("")])["general_wellness_tips"]

\* the block of the socialMedia ladder of app.py for a label
SocialMediaBlock(label) ==
    app_lock_suggestions([c \in {"app_lock_suggestions"} |-> <<>>],
                         [social_media |-> V_str(label),
                          entertainment |-> V_str("")])["app_lock_suggestions"]

\* the block of the socialMedia ladder of category_recommendations.py
CategorySocialMediaBlock(label) ==
    category_social_media([c \in {"social_media_recommendations"} |-> <<>>],
                          [social_media |-> V_str(label),
                           field |-> V_str("")])["social_media_recommendations"]

\* the ordinal preprocess_input gives the answer to a question of the survey
AnswerOrdinal(x) ==
    OrdinalOf(field_mapping[x], Get(user_data, x, V_str("")))

\* C24 (as claimed): for totalScreenTime and socialMedia, an answer that
\* preprocess_input maps to the ordinal k makes generate_recommendations
\* select the block of the bracket of ordinal k, in en-dash and in hyphen
\* form alike; labels of ordinal 0, absent and unrecognized answers select
\* the block of 'Less than 1 hour'.
C24_BlockOfTheScoredBracket ==
    /\ AppRecommended =>
        /\ Entries(ScreenTimeBlock(BracketLabel(AnswerOrdinal("totalScreenTime"))))
              \subseteq Entries(recommendations.lists["general_wellness_tips"])
        /\ Entries(SocialMediaBlock(BracketLabel(AnswerOrdinal("socialMedia"))))
              \subseteq Entries(recommendations.lists["app_lock_suggestions"])
    /\ (op = "category_generate_recommendations" /\ ~recommendations.raised) =>
        Entries(CategorySocialMediaBlock(BracketLabel(AnswerOrdinal("socialMedia"))))
            \subseteq Entries(recommendations.lists["social_media_recommendations"])

\* the first advisory of the exercise block of each bracket, by ordinal
ExerciseAdvisory(k) ==
    <<A("URGENT: You're not exercising at all - This is critical!"),
      A("Good start! Increase to 3-4 days per week for optimal mental health"),
      A("Great exercise routine! Maintain 3-4 days per week"),
      A("Excellent! Daily exercise is optimal for mental health")>>[k + 1]

\* C25 (as claimed): the exercise advisory in meditation_exercises is the
\* one of the bracket whose ordinal calculate_risk_scores scores the survey
\* with, also for an absent, unrecognized or hyphen-form answer; the
\* 'Daily' advisory appears only when the exercise ordinal is 3.
C25_ExerciseAdvisoryOfTheScoredBracket ==
    AppRecommended =>
        \A k \in 0..3 :
            ExerciseAdvisory(k) \in Entries(recommendations.lists["meditation_exercises"])
                <=> k = AnswerOrdinal("exercise")

----------------------------------------------------------------------------
(* The prediction and the recommendations made from it, checked under Spec *)

\* a risk-tier advisory stands at index 0 of the returned parental_controls
RiskTierAdvisoryFirst ==
    /\ recommendations.lists["parental_controls"] # <<>>
    /\ recommendations.lists["parental_controls"][1] \in RiskTierAdvisories

\* C26 (as claimed): with no classifier loaded, the prediction is unhealthy
\* exactly when generate_recommendations places a risk-tier advisory at
\* index 0 of parental_controls, total_risk = 50 included.
C26_UnhealthyIffRiskTierAdvisory ==
    (/\ op = "generate_recommendations"
     /\ model = NotLoaded
     /\ ~ret.raised
     /\ ~recommendations.raised) =>
        (ret.is_healthy = FALSE <=> RiskTierAdvisoryFirst)

\* predictions that agree with p on risk_scores.total_risk and differ from
\* it in is_healthy, confidence, processed_data or the other risk scores
PredictionVariants(p) ==
    {[p EXCEPT !.is_healthy = h, !.confidence = c, !.processed_data = d,
               !.risk_scores = rs] :
        h \in BOOLEAN,
        c \in {p.confidence, 51, 99},
        d \in {p.processed_data, EmptyDict},
        rs \in {p.risk_scores,
                [total_risk |-> p.risk_scores.total_risk],
                [p.risk_scores EXCEPT !.screen_time_score = 0, !.sleep_risk = 0,
                                      !.behavioral_risk = 0,
                                      !.contextual_adjustment = 0,
                                      !.screen_index = 0, !.sleep_health = 0,
                                      !.wellbeing_score = 0]}}

\* C27: what generate_recommendations returns depends only on the survey
\* and on risk_scores.total_risk: a prediction that differs only in
\* is_healthy, confidence, processed_data or the other risk scores gives
\* the same recommendation set for the same survey (both functions).
C27_OnlyTotalRiskIsRead ==
    (op = "generate_recommendations" /\ ~ret.raised) =>
        \A q \in PredictionVariants(ret) :
            /\ generate_recommendations(NoLists, q, user_data) = recommendations
            /\ category_generate_recommendations(q, user_data)
                  = category_generate_recommendations(ret, user_data)

\* C27 witness: the classifier judged a survey healthy whose total_risk is
\* above 70; the recommendations carry the critical advisory all the same.
C27_Witness ==
    /\ op = "generate_recommendations"
    /\ ~ret.raised
    /\ ~recommendations.raised
    /\ model = Loaded
    /\ ret.is_healthy = TRUE
    /\ ret.risk_scores.total_risk > 7000
    /\ RiskTierAdvisoryFirst

----------------------------------------------------------------------------
(* SpecDb: the /api/predict route over the database (db = ScreenHealthDB()) *)
(* Every method of ScreenHealthDB opens its own connection and commits     *)
(* before it returns, so a method is one step; the requests of the         *)
(* threaded server interleave between the steps.  Of a row the columns     *)
(* kept are the ones the route and get_user_stats read.                    *)

\* the emails the requests carry; "" stands for a request without an email
Emails == {"", "a@x", "b@x"}

\* a scale answer that is not a number
SurveyStressWord == Put(SurveyScenario2, "stress", V_str("high"))

\* the surveys the requests carry
DbSurveys == {SurveyEmpty, SurveyScenario1, SurveyScenario2, SurveyStressWord}

\* the number of requests that arrive
MaxArrivals == 3

\* fetchone() found no row: None
NoUser == [id |-> 0, email |-> ""]

\* get_user_by_email: SELECT * FROM users WHERE email = ?
get_user_by_email(d, email) ==
    IF \E u \in d.users : u.email = email
    THEN CHOOSE u \in d.users : u.email = email
    ELSE NoUser

\* create_user_with_password: INSERT INTO users and commit; the UNIQUE
\* email raises sqlite3.IntegrityError, any other failure of the database
\* (fails) is caught as well, and both return success False
create_user_with_password(d, email, fails) ==
    IF fails
    THEN [db |-> d, success |-> FALSE, user_id |-> 0, error |-> "Exception"]
    ELSE IF \E u \in d.users : u.email = email
    THEN [db |-> d, success |-> FALSE, user_id |-> 0,
          error |-> "Email already exists"]
    ELSE LET id == Cardinality(d.users) + 1
         IN [db |-> [d EXCEPT !.users = @ \cup {[id |-> id, email |-> email]}],
             success |-> TRUE, user_id |-> id, error |-> ""]

\* prediction_result.get('is_healthy', False) as the BOOLEAN column holds it
is_healthy_column(prediction_result) ==
    IF "is_healthy" \in DOMAIN prediction_result /\ prediction_result.is_healthy
    THEN 1 ELSE 0

\* save_assessment: INSERT INTO assessments, UPDATE users and commit; a
\* failure closes the connection without a commit and returns success False
save_assessment(d, user_id, prediction_result, fails) ==
    IF fails
    THEN [db |-> d, success |-> FALSE, assessment_id |-> 0]
    ELSE LET id == Cardinality(d.assessments) + 1
         IN [db |-> [d EXCEPT !.assessments = @ \cup
                        {[id |-> id, user_id |-> user_id,
                          is_healthy |-> is_healthy_column(prediction_result)]}],
             success |-> TRUE, assessment_id |-> id]

\* SELECT COUNT(*) FROM assessments WHERE user_id = ?
total_assessments(d, user_id) ==
    Cardinality({a \in d.assessments : a.user_id = user_id})

\* SUM(CASE WHEN is_healthy = 1 ...) FROM assessments WHERE user_id = ?
healthy_count(d, user_id) ==
    Cardinality({a \in d.assessments : a.user_id = user_id /\ a.is_healthy = 1})

\* the sum taken over the assessments of every user
unhealthy_count_any_user(d, user_id) ==
    Cardinality({a \in d.assessments : a.is_healthy = 0})

\* SUM(CASE WHEN is_healthy = 0 ...) FROM assessments WHERE user_id = ?
unhealthy_count(d, user_id) ==
    Cardinality({a \in d.assessments : a.user_id = user_id /\ a.is_healthy = 0})

\* get_user_stats(user_id)
get_user_stats(d, user_id) ==
    [total_assessments |-> total_assessments(d, user_id),
     healthy_count |-> healthy_count(d, user_id),
     unhealthy_count |-> unhealthy_count(d, user_id)]

\* the locals of a request of the route that has not started; user_id 0 is
\* None, status 0 is no response yet, created and saved are the ids of
\* the rows the request inserted (0 for none), db_error tells that a
\* statement of the request failed in the database; an answered request
\* keeps what the response and the tables show of it
RouteIdle ==
    [pc |-> "idle", round |-> 0, email |-> "", user_data |-> EmptyDict,
     user_id |-> 0, prediction |-> NoReturn, status |-> 0,
     created |-> 0, saved |-> 0, db_error |-> FALSE]

InitDb ==
    /\ PredictorFresh
    /\ load_pc = "failed"
    /\ user_data = EmptyDict
    /\ processed_data = EmptyDict
    /\ user_context = NoContext
    /\ op = "none"
    /\ invocation = "none"
    /\ ret = NoReturn
    /\ prediction_in = EmptyDict
    /\ recommendations = NotGenerated
    /\ earlier = NoEarlier
    /\ calls = [c \in Requests |-> RouteIdle]
    /\ db = EmptyDb
    /\ saves = <<>>

\* the requests that have arrived: each thread counts its own
RECURSIVE ArrivalsOf(_)
ArrivalsOf(ws) ==
    IF ws = {} THEN 0
    ELSE LET w == CHOOSE x \in ws : TRUE
         IN calls[w].round + ArrivalsOf(ws \ {w})

Arrivals == ArrivalsOf(Requests)

\* what no step of the route touches
RouteUnchanged ==
    UNCHANGED <<model, scaler, label_encoders, feature_names, load_pc, user_data,
                processed_data, user_context, op, invocation, ret,
                prediction_in, recommendations, earlier>>

\* data = request.json; user_data = data.get('user_data', {});
\* user_email = data.get('email')
RouteArrive(c, email, ud) ==
    /\ calls[c].pc \in {"idle", "done"}
    /\ Arrivals < MaxArrivals
    /\ calls' = [calls EXCEPT ![c] =
                    [RouteIdle EXCEPT !.pc = "validate", !.round = calls[c].round + 1,
                                      !.email = email, !.user_data = ud]]
    /\ UNCHANGED dbVars
    /\ RouteUnchanged

\* if not user_data: return 400; user_id = None; if user_email:
RouteValidate(c) ==
    /\ calls[c].pc = "validate"
    /\ calls' = [calls EXCEPT ![c] =
                    IF calls[c].user_data = EmptyDict
                    THEN [@ EXCEPT !.pc = "done", !.status = 400,
                                   !.user_data = EmptyDict]
                    ELSE IF calls[c].email # ""
                    THEN [@ EXCEPT !.pc = "get_user"]
                    ELSE [@ EXCEPT !.pc = "predict"]]
    /\ UNCHANGED dbVars
    /\ RouteUnchanged

\* user = db.get_user_by_email(user_email); if not user: ... else:
\* user_id = user['id']
RouteGetUser(c) ==
    /\ calls[c].pc = "get_user"
    /\ LET user == get_user_by_email(db, calls[c].email)
       IN calls' = [calls EXCEPT ![c] =
                       IF user = NoUser
                       THEN [@ EXCEPT !.pc = "create_user"]
                       ELSE [@ EXCEPT !.pc = "predict", !.user_id = user.id]]
    /\ UNCHANGED dbVars
    /\ RouteUnchanged

\* result = db.create_user_with_password(email=user_email, ...);
\* if result['success']: user_id = result['user_id']
RouteCreateUser(c) ==
    /\ calls[c].pc = "create_user"
    /\ \E fails \in BOOLEAN :
        LET result == create_user_with_password(db, calls[c].email, fails)
        IN /\ db' = result.db
           /\ calls' = [calls EXCEPT ![c] =
                           [@ EXCEPT !.pc = "predict",
                                     !.user_id = IF result.success
                                                 THEN result.user_id ELSE 0,
                                     !.created = IF result.success
                                                 THEN result.user_id ELSE 0,
                                     !.db_error = fails]]
    /\ UNCHANGED saves
    /\ RouteUnchanged

\* prediction = predictor.predict(user_data); recommendations =
\* RecommendationEngine.generate_recommendations(prediction, user_data);
\* an exception of either is answered with 500; if user_id: ... else the
\* response
RoutePredict(c) ==
    /\ calls[c].pc = "predict"
    /\ LET prediction == predict_return(model, scaler, label_encoders,
                                        feature_names, calls[c].user_data, NoOutcome)
           raises == IF prediction.raised THEN TRUE
                     ELSE generate_recommendations(NoLists, prediction,
                                                   calls[c].user_data).raised
       IN calls' = [calls EXCEPT ![c] =
                       IF raises
                       THEN [@ EXCEPT !.pc = "done", !.status = 500,
                                      !.user_data = EmptyDict]
                       ELSE IF calls[c].user_id # 0
                       THEN [@ EXCEPT !.pc = "save", !.prediction = prediction]
                       ELSE [@ EXCEPT !.pc = "done", !.status = 200,
                                      !.user_data = EmptyDict]]
    /\ UNCHANGED dbVars
    /\ RouteUnchanged

\* save_result = db.save_assessment(user_id=user_id, ...), its outcome
\* only printed, and then return jsonify(response)
RouteSave(c) ==
    /\ calls[c].pc = "save"
    /\ \E fails \in BOOLEAN :
        LET save_result == save_assessment(db, calls[c].user_id,
                                           calls[c].prediction, fails)
        IN /\ db' = save_result.db
           /\ saves' = IF save_result.success
                       THEN Append(saves, calls[c].user_id) ELSE saves
           /\ calls' = [calls EXCEPT ![c] =
                           [@ EXCEPT !.pc = "done", !.status = 200,
                                     !.user_data = EmptyDict,
                                     !.prediction = NoReturn,
                                     !.saved = save_result.assessment_id,
                                     !.db_error = @ \/ fails]]
    /\ RouteUnchanged

NextDb ==
    \/ \E c \in Requests, email \in Emails, ud \in DbSurveys : RouteArrive(c, email, ud)
    \/ \E c \in Requests : RouteValidate(c)
    \/ \E c \in Requests : RouteGetUser(c)
    \/ \E c \in Requests : RouteCreateUser(c)
    \/ \E c \in Requests : RoutePredict(c)
    \/ \E c \in Requests : RouteSave(c)

SpecDb == InitDb /\ [][NextDb]_vars

\* the request has been answered
Answered(c) == calls[c].pc = "done"

\* the assessment of the request is a row of assessments that belongs to
\* the user with the email of the request
AssessmentSaved(c) ==
    \E a \in db.assessments :
        /\ a.id = calls[c].saved
        /\ a.user_id = get_user_by_email(db, calls[c].email).id

\* C28: every request that carries an email and gets a successful response
\* has its assessment saved for the user with that email, whatever the
\* other request does meanwhile (stated for the requests none of whose
\* database statements failed)
C28_EmailedSuccessIsSaved ==
    \A c \in Requests :
        (Answered(c) /\ calls[c].status = 200 /\ calls[c].email # ""
            /\ ~calls[c].db_error)
        => AssessmentSaved(c)

\* the rows the request inserted that the tables hold
RowsInserted(c) ==
    {u \in db.users : u.id = calls[c].created}
        \cup {a \in db.assessments : a.id = calls[c].saved}

\* C29: a request answered with an error (400 or 500) has left the users
\* and assessments tables as they were: no row of either was inserted by it
C29_ErrorLeavesNoRow ==
    \A c \in Requests :
        (Answered(c) /\ calls[c].status \in {400, 500}) => RowsInserted(c) = {}

\* the ids user rows can have
UserIds == 1..Cardinality(Emails)

\* the number of save_assessment calls for the user that succeeded
SuccessfulSaves(user_id) ==
    Cardinality({i \in DOMAIN saves : saves[i] = user_id})

\* C30: whatever calls of create_user_with_password and save_assessment
\* were made, get_user_stats gives every user a total_assessments that is
\* healthy_count + unhealthy_count and that is the number of the
\* successful save_assessment calls for that user
C30_StatsCountTheSaves ==
    \A user_id \in UserIds :
        LET stats == get_user_stats(db, user_id)
        IN /\ stats.total_assessments = stats.healthy_count + stats.unhealthy_count
           /\ stats.total_assessments = SuccessfulSaves(user_id)

\* a user with a healthy and an unhealthy assessment, and a save_assessment
\* call for a user that failed
C30_Witness ==
    /\ \E u \in db.users :
        /\ healthy_count(db, u.id) >= 1
        /\ unhealthy_count(db, u.id) >= 1
    /\ \E c \in Requests :
        /\ Answered(c)
        /\ calls[c].user_id # 0
        /\ calls[c].db_error
        /\ calls[c].saved = 0
====
